---- MODULE Spec2Model ----
(***************************************************************************)
(* Model of the sneaker-store Lambda handlers (POST /shoes, PUT /shoes/id, *)
(* PATCH /shoes/id/inventory, DELETE /shoes/id) and of the connection      *)
(* layer they share (getConnection, withDb), against the two tables        *)
(* shoes and shoe_inventory.                                               *)
(*                                                                         *)
(* A request runs to completion in one step.  The rows are the committed   *)
(* rows of the store; inside a request the handler works on the view of    *)
(* its connection, which differs from the committed rows only while a      *)
(* transaction is open.  A statement that throws has no effect.            *)
(***************************************************************************)
EXTENDS Integers, Sequences, FiniteSets, TLC

VARIABLES
  shoes,       \* table shoes: id -> [name, brand, price, image]
  inv,         \* table shoe_inventory: <<shoe_id, size>> -> quantities of the rows with that pair
  nextId,      \* AUTO_INCREMENT counter of shoes.id
  cachedConn,  \* per handler module: the module-level cached connection
  last,        \* what the last request was and what it answered
  running,     \* the requests in flight on separate process instances
  cachedSecret, \* per resolver: the module-level cached secret
  processEnv,  \* process.env: CONFIG_SOURCE and SECRET_NAME
  lastSecret   \* what the last credential resolution did

vars == <<shoes, inv, nextId, cachedConn, last, running, cachedSecret, processEnv,
          lastSecret>>

----------------------------------------------------------------------------
(* Bounds *)

MaxId == 2        \* ids the AUTO_INCREMENT counter may hand out
MaxQty == 2       \* largest quantity a positive delta may reach
MaxInstances == 2 \* process instances that serve requests at the same time
MaxGroupsLen == 3 \* longest cognito:groups string, in characters

----------------------------------------------------------------------------
(* Values *)

Null == -100                       \* JavaScript null / undefined, where a number is expected
NullStr == "<null>"                \* JavaScript null / undefined, where a string is expected
NoErr == ""                        \* no error thrown
batchSize == 10                    \* rows per multi-row INSERT
Ids == 1..MaxId

Max(a, b) == IF a >= b THEN a ELSE b
Min(a, b) == IF a <= b THEN a ELSE b

\* Error messages the store client raises.
ConnLost == "PROTOCOL_CONNECTION_LOST"
TimedOut == "ETIMEDOUT"
ConnectTimeout == "connect ETIMEDOUT"
Deadlock == "ER_LOCK_DEADLOCK"
DupEntry == "ER_DUP_ENTRY"
ClosedErr == "closed state"
Refused == "ECONNREFUSED"
BadField == "ER_BAD_FIELD_ERROR"
BadNull == "ER_BAD_NULL_ERROR"

\* The signatures withDb's regular expression matches.
Transient(e) == e \in {ConnLost, "ECONNRESET", TimedOut, ConnectTimeout, "EPIPE"}

----------------------------------------------------------------------------
(* The store: statements as functions of the rows the connection sees *)

EmptyInv == <<>>

Ok(w) == [err |-> NoErr, w |-> w]
Err(e, w) == [err |-> e, w |-> w]

\* the quantities of the rows stored under key k
Rows(w, k) == IF k \in DOMAIN w.inv THEN w.inv[k] ELSE <<>>

\* The schema declares shoe_inventory.shoe_id without a FOREIGN KEY clause, so
\* the store cascades nothing.
OnDeleteCascade == FALSE

\* DELETE FROM shoe_inventory WHERE shoe_id = ?
DeleteInventory(w, id) ==
  Ok([w EXCEPT !.inv = [k \in {k \in DOMAIN w.inv : k[1] # id} |-> w.inv[k]]])

\* DELETE FROM shoes WHERE id = ?
DeleteShoe(w, id) ==
  LET gone == [w EXCEPT !.shoes = [i \in DOMAIN w.shoes \ {id} |-> w.shoes[i]]]
  IN IF OnDeleteCascade /\ id \in DOMAIN w.shoes THEN DeleteInventory(gone, id) ELSE Ok(gone)

\* rows of a multi-row INSERT as <<shoe_id, size, quantity>>
RowKey(row) == <<row[1], row[2]>>

\* the quantities of the rows among rows[i..] that carry key k, in order
RECURSIVE QtysOf(_, _, _)
QtysOf(rows, k, i) ==
  IF i > Len(rows) THEN <<>>
  ELSE (IF RowKey(rows[i]) = k THEN <<rows[i][3]>> ELSE <<>>) \o QtysOf(rows, k, i + 1)

\* a shoe_inventory table created without the UNIQUE key
NoUniqueKey(w, rows) == FALSE

\* UNIQUE (shoe_id, size): the rows to insert collide with a stored row or with each other
UniqueViolated(w, rows) ==
  \/ \E i \in 1..Len(rows) : RowKey(rows[i]) \in DOMAIN w.inv
  \/ \E i, j \in 1..Len(rows) : i < j /\ RowKey(rows[i]) = RowKey(rows[j])

\* INSERT INTO shoe_inventory (shoe_id, size, quantity) VALUES ?
InsertInventory(w, rows) ==
  IF \E i \in 1..Len(rows) : rows[i][2] = Null \/ rows[i][3] = Null THEN Err(BadNull, w)
  ELSE IF UniqueViolated(w, rows) THEN Err(DupEntry, w)
  ELSE Ok([w EXCEPT !.inv =
             [k \in DOMAIN w.inv \cup {RowKey(rows[i]) : i \in 1..Len(rows)} |->
                Rows(w, k) \o QtysOf(rows, k, 1)]])

\* the upsert that adds the submitted quantity to the stored one
UpsertAccumulating(w, id, size, q) ==
  IF <<id, size>> \notin DOMAIN w.inv THEN InsertInventory(w, <<<<id, size, q>>>>)
  ELSE Ok([w EXCEPT !.inv[<<id, size>>] = <<Head(@) + q>> \o Tail(@)])

\* INSERT ... VALUES (?, ?, ?) ON DUPLICATE KEY UPDATE quantity = VALUES(quantity)
UpsertAbsolute(w, id, size, q) ==
  IF <<id, size>> \notin DOMAIN w.inv THEN InsertInventory(w, <<<<id, size, q>>>>)
  ELSE Ok([w EXCEPT !.inv[<<id, size>>] = <<q>> \o Tail(@)])

\* INSERT ... VALUES (?, ?, ?) ON DUPLICATE KEY UPDATE quantity = quantity + VALUES(quantity)
UpsertAdd(w, id, size, d) ==
  IF <<id, size>> \notin DOMAIN w.inv THEN InsertInventory(w, <<<<id, size, d>>>>)
  ELSE Ok([w EXCEPT !.inv[<<id, size>>] = <<Head(@) + d>> \o Tail(@)])

\* the update without GREATEST: quantity = quantity + ?
UpdateUnclamped(w, id, size, d) ==
  IF <<id, size>> \notin DOMAIN w.inv THEN Ok(w)
  ELSE Ok([w EXCEPT !.inv[<<id, size>>] = [i \in 1..Len(@) |-> @[i] + d]])

\* UPDATE shoe_inventory SET quantity = GREATEST(0, quantity + ?) WHERE shoe_id = ? AND size = ?
UpdateClamped(w, id, size, d) ==
  IF <<id, size>> \notin DOMAIN w.inv THEN Ok(w)
  ELSE Ok([w EXCEPT !.inv[<<id, size>>] = [i \in 1..Len(@) |-> Max(0, @[i] + d)]])

\* the row check left out: every (shoe_id, size) is taken to have a row
RowAssumed(w, id, size) == TRUE

\* SELECT quantity FROM shoe_inventory WHERE shoe_id = ? AND size = ? answers a row
HasRow(w, id, size) == <<id, size>> \in DOMAIN w.inv

\* the existence check left out: every id is taken to exist
AlwaysExists(w, id) == TRUE

\* SELECT id FROM shoes WHERE id = ? answers a row
ShoeExists(w, id) == id \in DOMAIN w.shoes

\* UPDATE shoes SET <fields> WHERE id = ?   (every column is NOT NULL)
UpdateShoe(w, id, sets) ==
  IF id \notin DOMAIN w.shoes THEN Ok(w)
  ELSE IF \E c \in DOMAIN sets : IF c = "price" THEN sets[c] = Null ELSE sets[c] = NullStr
       THEN Err(BadNull, w)
  ELSE Ok([w EXCEPT !.shoes[id] =
             [c \in DOMAIN @ |-> IF c \in DOMAIN sets THEN sets[c] ELSE @[c]]])

\* INSERT INTO shoes (name, brand, price, image) VALUES ?   (ids from the counter)
InsertShoes(w, nid, items) ==
  IF \E i \in 1..Len(items) :
       \/ items[i].name = NullStr \/ items[i].brand = NullStr
       \/ items[i].price = Null \/ items[i].image = NullStr
  THEN Err(BadNull, w)
  ELSE Ok([w EXCEPT !.shoes =
             [i \in DOMAIN @ \cup (nid..(nid + Len(items) - 1)) |->
                IF i \in DOMAIN @ THEN @[i] ELSE items[i - nid + 1]]])

----------------------------------------------------------------------------
(* A connection's session while a handler runs *)

\* c: committed rows, w: rows as the connection sees them, tx: transaction open,
\* n: store calls made, err: error thrown, dead: connection lost, log: calls made
Session(db, nid) ==
  [c |-> db, w |-> db, nextId |-> nid, tx |-> FALSE, n |-> 0, err |-> NoErr,
   dead |-> FALSE, log |-> <<>>]

\* A fault: the store call number `at` throws `err`; `dead` tells whether the
\* connection is lost with it, `rb` what a rollback on the lost connection throws.
NoFault == [at |-> 0, err |-> NoErr, dead |-> FALSE, rb |-> NoErr]

Fail(s, name, e, kills) ==
  [s EXCEPT !.n = @ + 1, !.log = Append(@, name), !.err = e,
            !.dead = kills,
            !.tx = IF kills THEN FALSE ELSE @,
            !.w = IF kills THEN s.c ELSE @]

\* await conn.query(...): r is the statement's result on s.w
Query(s, f, name, r) ==
  IF s.err # NoErr THEN s
  ELSE IF s.dead THEN Fail(s, name, ClosedErr, TRUE)
  ELSE IF f.at = s.n + 1 THEN Fail(s, name, f.err, f.dead)
  ELSE IF r.err # NoErr THEN Fail(s, name, r.err, FALSE)
  ELSE [s EXCEPT !.n = @ + 1, !.log = Append(@, name), !.w = r.w,
                 !.c = IF s.tx THEN @ ELSE r.w]

\* await conn.beginTransaction()
Begin(s, f) ==
  IF s.err # NoErr THEN s
  ELSE IF f.at = s.n + 1 THEN Fail(s, "BEGIN", f.err, f.dead)
  ELSE [s EXCEPT !.n = @ + 1, !.log = Append(@, "BEGIN"), !.tx = TRUE, !.c = s.w]

\* await conn.commit()
Commit(s, f) ==
  IF s.err # NoErr THEN s
  ELSE IF f.at = s.n + 1 THEN Fail(s, "COMMIT", f.err, f.dead)
  ELSE [s EXCEPT !.n = @ + 1, !.log = Append(@, "COMMIT"), !.tx = FALSE, !.c = s.w]

\* conn.rollback() never called
RollbackOmitted(s, f) == s

\* await conn.rollback(): ROLLBACK takes no lock and the server does not refuse
\* it; it fails only with the transport
Rollback(s, f) ==
  IF s.dead
  THEN [s EXCEPT !.n = @ + 1, !.log = Append(@, "ROLLBACK"), !.err = f.rb]
  ELSE IF f.at = s.n + 1 /\ f.dead THEN Fail(s, "ROLLBACK", f.err, f.dead)
  ELSE [s EXCEPT !.n = @ + 1, !.log = Append(@, "ROLLBACK"), !.tx = FALSE, !.w = s.c]

\* catch (e) { throw e; } -- the rollback forgotten
RethrowOnly(s, f) == s

\* catch (e) { await conn.rollback(); throw e; }
CatchRollback(s, f) ==
  IF s.err = NoErr THEN s
  ELSE LET r == Rollback([s EXCEPT !.err = NoErr], f)
       IN IF r.err # NoErr THEN r ELSE [r EXCEPT !.err = s.err]

----------------------------------------------------------------------------
(* Connection cache *)

\* k.cache: "null" | "connected" | "disconnected"; k.h: the handle cached;
\* handles are numbered per request: 0 is the handle cached when the request
\* starts, i the i-th handle created during the request (k.made counts them).
ConnState(cache) == [cache |-> cache, h |-> 0, made |-> 0, err |-> NoErr, log |-> <<>>]

\* getConnection without the test of the cached handle
GetConnectionFresh(k, ce) ==
  IF ce # NoErr THEN [k EXCEPT !.err = ce, !.log = Append(@, "CONNECT")]
  ELSE [k EXCEPT !.err = NoErr, !.cache = "connected", !.h = k.made + 1,
                 !.made = @ + 1, !.log = Append(@, "CONNECT")]

GetConnection(k, ce) ==
  IF k.cache = "connected" THEN [k EXCEPT !.err = NoErr]
  ELSE IF ce # NoErr THEN [k EXCEPT !.err = ce, !.log = Append(@, "CONNECT")]
  ELSE [k EXCEPT !.err = NoErr, !.cache = "connected", !.h = k.made + 1,
                 !.made = @ + 1, !.log = Append(@, "CONNECT")]

\* the cached handle after a session ran on it
AfterSession(k, s) ==
  [k EXCEPT !.cache = IF s.dead THEN "disconnected" ELSE @, !.log = @ \o s.log]

\* conn = await getConnection(); -- the cached connection kept
ReuseCached(k, ce) == GetConnection(k, ce)

\* cachedConn = null; conn = await getConnection();
Reconnect(k, ce) ==
  GetConnection([k EXCEPT !.cache = "null", !.log = Append(@, "DISCARD")], ce)

\* What a request did with the store: s the session it ended on, k the cache.
Outcome(k, s, out, raised, conns, errs) ==
  [db |-> s.c, nextId |-> s.nextId, cache |-> k.cache, made |-> k.made, log |-> k.log,
   connErr |-> k.err, out |-> out, raised |-> raised, calls |-> Len(conns),
   conns |-> conns, errs |-> errs,
   txOpen |-> s.tx /\ ~s.dead /\ k.cache = "connected"]

\* withDb without `if (!transient) throw err`: any first error is retried
RetryAnyError(cache, s0, a1, a2, ce1, ce2) ==
  LET k1 == GetConnection(ConnState(cache), ce1)
      k2 == AfterSession(k1, a1.s)
      k3 == GetConnection([k2 EXCEPT !.cache = "null", !.log = Append(@, "DISCARD")], ce2)
      k4 == AfterSession(k3, a2.s)
  IN IF k1.err # NoErr THEN Outcome(k1, s0, "throw", k1.err, <<>>, <<>>)
     ELSE IF a1.s.err = NoErr
       THEN Outcome(k2, a1.s, a1.out, NoErr, <<k1.h>>, <<NoErr>>)
     ELSE IF k3.err # NoErr
       THEN Outcome(k3, a1.s, "throw", k3.err, <<k1.h>>, <<a1.s.err>>)
     ELSE Outcome(k4, a2.s, IF a2.s.err = NoErr THEN a2.out ELSE "throw", a2.s.err,
                  <<k1.h, k3.h>>, <<a1.s.err, a2.s.err>>)

\* withDb(fn), given what fn does when invoked: a1 on the first invocation (from
\* session s0), a2 on a second one (from the rows the first one left)
withDb(cache, s0, a1, a2, ce1, ce2) ==
  LET k1 == GetConnection(ConnState(cache), ce1)
      k2 == AfterSession(k1, a1.s)
      k3 == Reconnect(k2, ce2)
      k4 == AfterSession(k3, a2.s)
  IN IF k1.err # NoErr THEN Outcome(k1, s0, "throw", k1.err, <<>>, <<>>)
     ELSE IF a1.s.err = NoErr
       THEN Outcome(k2, a1.s, a1.out, NoErr, <<k1.h>>, <<NoErr>>)
     ELSE IF ~Transient(a1.s.err)
       THEN Outcome(k2, a1.s, "throw", a1.s.err, <<k1.h>>, <<a1.s.err>>)
     ELSE IF k3.err # NoErr
       THEN Outcome(k3, a1.s, "throw", k3.err, <<k1.h>>, <<a1.s.err>>)
     ELSE Outcome(k4, a2.s, IF a2.s.err = NoErr THEN a2.out ELSE "throw", a2.s.err,
                  <<k1.h, k3.h>>, <<a1.s.err, a2.s.err>>)

\* the session a second invocation starts from: the rows the first one left
Again(a1) == Session(a1.s.c, a1.s.nextId)

\* const conn = await getConnection(); then the operation once, given what it does
getConnectionThen(cache, s0, a1, ce1) ==
  LET k1 == GetConnection(ConnState(cache), ce1)
      k2 == AfterSession(k1, a1.s)
  IN IF k1.err # NoErr THEN Outcome(k1, s0, "throw", k1.err, <<>>, <<>>)
     ELSE Outcome(k2, a1.s, IF a1.s.err = NoErr THEN a1.out ELSE "throw", a1.s.err,
                  <<k1.h>>, <<a1.s.err>>)

----------------------------------------------------------------------------
(* Guard *)

NoGroups == [kind |-> "none", items |-> <<>>]
AdminArr == [kind |-> "array", items |-> <<"admin">>]
UserArr == [kind |-> "array", items |-> <<"user">>]

\* the group name 'admin' and a group string "admin,user", as characters: a
\* string claim is a sequence over "a", "d" and ",", and "ad" stands for admin
AdminChars == <<"a", "d">>

RECURSIVE Split(_, _)
\* String(groups).split(','): the pieces between the commas, cur the piece begun
Split(str, cur) ==
  IF str = <<>> THEN <<cur>>
  ELSE IF Head(str) = "," THEN <<cur>> \o Split(Tail(str), <<>>)
  ELSE Split(Tail(str), Append(cur, Head(str)))

\* isAdmin looking at the first membership only
IsAdminFirstOnly(claims) ==
  /\ claims.kind # "none" /\ claims.items # <<>>
  /\ IF claims.kind = "string" THEN Split(claims.items, <<>>)[1] = AdminChars
     ELSE claims.items[1] = "admin"

\* isAdmin(claims)
IsAdmin(claims) ==
  /\ claims.kind # "none"
  /\ IF claims.kind = "string"
     THEN /\ claims.items # <<>>
          /\ \E i \in 1..Len(Split(claims.items, <<>>)) :
                Split(claims.items, <<>>)[i] = AdminChars
     ELSE \E i \in 1..Len(claims.items) : claims.items[i] = "admin"

\* a response that touched nothing
Plain(status, db, nid, cache) ==
  [db |-> db, nextId |-> nid, cache |-> cache, made |-> 0, log |-> <<>>,
   connErr |-> NoErr, out |-> "none", raised |-> NoErr, calls |-> 0, conns |-> <<>>,
   errs |-> <<>>, status |-> status, headers |-> TRUE, txOpen |-> FALSE]

WithStatus(o, status) ==
  [db |-> o.db, nextId |-> o.nextId, cache |-> o.cache, made |-> o.made, log |-> o.log,
   connErr |-> o.connErr, out |-> o.out, raised |-> o.raised, calls |-> o.calls,
   conns |-> o.conns, errs |-> o.errs, status |-> status, headers |-> TRUE,
   txOpen |-> o.txOpen]

----------------------------------------------------------------------------
(* DELETE /shoes/{id} *)

DeleteFn(s0, f, shoeId) ==
  LET s1 == Begin(s0, f)
      affected == shoeId \in DOMAIN s1.w.shoes
      s2 == Query(s1, f, "DELETE shoes", DeleteShoe(s1.w, shoeId))
      s3 == IF s2.err # NoErr THEN s2
            ELSE IF ~affected THEN Rollback(s2, f) ELSE Commit(s2, f)
      s4 == IF s1.err # NoErr THEN s1 ELSE CatchRollback(s3, f)
  IN [s |-> s4, out |-> IF affected THEN "ok" ELSE "notFound"]

\* the handler with the admin guard evaluated before the preflight test
DeleteGuardFirst(db, nid, cache, method, claims, shoeId, f1, f2, ce1, ce2) ==
  IF ~IsAdmin(claims) THEN Plain(403, db, nid, cache)
  ELSE IF method = "OPTIONS" THEN Plain(200, db, nid, cache)
  ELSE LET s0 == Session(db, nid)
           a1 == DeleteFn(s0, f1, shoeId)
           a2 == DeleteFn(Again(a1), f2, shoeId)
           o == withDb(cache, s0, a1, a2, ce1, ce2)
       IN WithStatus(o, IF o.out = "throw" THEN 500
                        ELSE IF o.out = "notFound" THEN 404 ELSE 200)

DeleteHandler(db, nid, cache, method, claims, shoeId, f1, f2, ce1, ce2) ==
  IF method = "OPTIONS" THEN Plain(200, db, nid, cache)
  ELSE IF ~IsAdmin(claims) THEN Plain(403, db, nid, cache)
  ELSE LET s0 == Session(db, nid)
           a1 == DeleteFn(s0, f1, shoeId)
           a2 == DeleteFn(Again(a1), f2, shoeId)
           o == withDb(cache, s0, a1, a2, ce1, ce2)
       IN WithStatus(o, IF o.out = "throw" THEN 500
                        ELSE IF o.out = "notFound" THEN 404 ELSE 200)

----------------------------------------------------------------------------
(* Inventory rows of a payload *)

\* Number(quantity || 1)
QuantityOrOne(q) == IF q = Null \/ q = 0 THEN 1 ELSE q

\* rows.push([shoeId, Number(size), Number(quantity || 1)]) for the items with a size
RECURSIVE InventoryRows(_, _, _)
InventoryRows(shoeId, items, i) ==
  IF i > Len(items) THEN <<>>
  ELSE (IF items[i].size # Null
        THEN << <<shoeId, items[i].size, QuantityOrOne(items[i].quantity)>> >>
        ELSE <<>>) \o InventoryRows(shoeId, items, i + 1)

\* for (i = 0; i < rows.length; i += batchSize) INSERT rows.slice(i, i + batchSize)
RECURSIVE InsertChunks(_, _, _, _)
InsertChunks(s, f, rows, i) ==
  IF i > Len(rows) THEN s
  ELSE InsertChunks(
         Query(s, f, "INSERT shoe_inventory",
               InsertInventory(s.w, SubSeq(rows, i, Min(i + batchSize - 1, Len(rows))))),
         f, rows, i + batchSize)

----------------------------------------------------------------------------
(* PUT /shoes/{id} *)

Columns == {"name", "brand", "price", "image"}

Present(body, c) == IF c = "price" THEN body[c] # Null ELSE body[c] # NullStr

\* the SET list: String(name), String(brand), Number(price), image || null
PutSets(body) ==
  [c \in {c \in Columns : Present(body, c)} |->
     IF c = "image" /\ body.image = "" THEN NullStr ELSE body[c]]

handlePutUpdateFn(s0, f, shoeId, body) ==
  LET sets == PutSets(body)
      s1 == Begin(s0, f)
      found == shoeId \in DOMAIN s1.w.shoes
      s2 == IF DOMAIN sets # {}
            THEN Query(s1, f, "UPDATE shoes", UpdateShoe(s1.w, shoeId, sets))
            ELSE Query(s1, f, "SELECT shoes", Ok(s1.w))
      n2 == Rollback(s2, f)
      s3 == IF body.hasInventory
            THEN Query(s2, f, "DELETE shoe_inventory", DeleteInventory(s2.w, shoeId))
            ELSE s2
      s4 == IF body.hasInventory
            THEN InsertChunks(s3, f, InventoryRows(shoeId, body.inventory, 1), 1)
            ELSE s3
      s5 == Query(s4, f, "SELECT shoes", Ok(s4.w))
      s6 == Commit(s5, f)
      tried == IF s2.err = NoErr /\ ~found THEN n2 ELSE s6
      s7 == IF s1.err # NoErr THEN s1 ELSE CatchRollback(tried, f)
  IN [s |-> s7, out |-> IF found THEN "ok" ELSE "notFound"]

StatusOf(out) ==
  CASE out = "throw" -> 500
    [] out = "notFound" -> 404
    [] out = "badRequest" -> 400
    [] out = "created" -> 201
    [] OTHER -> 200

UpdateHandler(db, nid, cache, method, claims, shoeId, body, f1, ce1) ==
  IF method = "OPTIONS" THEN Plain(200, db, nid, cache)
  ELSE IF ~IsAdmin(claims) THEN Plain(403, db, nid, cache)
  ELSE IF ~body.valid THEN Plain(400, db, nid, cache)
  ELSE LET s0 == Session(db, nid)
           o == getConnectionThen(cache, s0, handlePutUpdateFn(s0, f1, shoeId, body), ce1)
       IN WithStatus(o, StatusOf(o.out))

----------------------------------------------------------------------------
(* PATCH /shoes/{id}/inventory *)

handlePatchInventoryFn(s0, f, shoeId, body) ==
  LET hasQuantity == body.quantity # Null
      s1 == Query(s0, f, "SELECT shoes", Ok(s0.w))
      found == ShoeExists(s0.w, shoeId)
      key == <<shoeId, body.size>>
      \* absolute
      a2 == Query(s1, f, "UPSERT shoe_inventory",
                  UpsertAbsolute(s1.w, shoeId, body.size, body.quantity))
      \* positive delta
      p2 == Query(s1, f, "UPSERT shoe_inventory",
                  UpsertAdd(s1.w, shoeId, body.size, body.delta))
      \* negative delta
      d2 == Query(s1, f, "SELECT shoe_inventory", Ok(s1.w))
      hasRow == HasRow(s1.w, shoeId, body.size)
      d3 == Query(d2, f, "UPDATE shoe_inventory",
                  UpdateClamped(d2.w, shoeId, body.size, body.delta))
      early == IF s1.err # NoErr THEN "throw"
               ELSE IF ~found THEN "notFound"
               ELSE IF hasQuantity /\ body.quantity < 0 THEN "badRequest"
               ELSE IF ~hasQuantity /\ body.delta < 0 /\ d2.err = NoErr /\ ~hasRow
                    THEN "badRequest"
               ELSE "go"
      wrote == IF hasQuantity THEN a2
               ELSE IF body.delta > 0 THEN p2
               ELSE IF body.delta < 0 THEN d3
               ELSE s1
      s9 == Query(wrote, f, "SELECT shoe_inventory", Ok(wrote.w))
  IN IF early = "go" THEN [s |-> s9, out |-> "ok"]
     ELSE [s |-> IF ~hasQuantity /\ body.delta < 0 /\ found /\ s1.err = NoErr THEN d2 ELSE s1,
           out |-> early]

\* the handler without the test that refuses quantity together with delta
PatchBothAllowed(db, nid, cache, method, claims, shoeId, body, f1, ce1) ==
  IF method = "OPTIONS" THEN Plain(200, db, nid, cache)
  ELSE IF ~IsAdmin(claims) THEN Plain(403, db, nid, cache)
  ELSE IF ~body.valid THEN Plain(400, db, nid, cache)
  ELSE IF body.size = Null THEN Plain(400, db, nid, cache)
  ELSE IF body.quantity = Null /\ body.delta = Null THEN Plain(400, db, nid, cache)
  ELSE LET s0 == Session(db, nid)
           o == getConnectionThen(cache, s0, handlePatchInventoryFn(s0, f1, shoeId, body), ce1)
       IN WithStatus(o, StatusOf(o.out))

PatchHandler(db, nid, cache, method, claims, shoeId, body, f1, ce1) ==
  IF method = "OPTIONS" THEN Plain(200, db, nid, cache)
  ELSE IF ~IsAdmin(claims) THEN Plain(403, db, nid, cache)
  ELSE IF ~body.valid THEN Plain(400, db, nid, cache)
  ELSE IF body.size = Null THEN Plain(400, db, nid, cache)
  ELSE IF body.quantity # Null /\ body.delta # Null THEN Plain(400, db, nid, cache)
  ELSE IF body.quantity = Null /\ body.delta = Null THEN Plain(400, db, nid, cache)
  ELSE LET s0 == Session(db, nid)
           o == getConnectionThen(cache, s0, handlePatchInventoryFn(s0, f1, shoeId, body), ce1)
       IN WithStatus(o, StatusOf(o.out))

----------------------------------------------------------------------------
(* POST /shoes *)

\* shoeBatch.map(({name, brand, price, image}) => [name, brand, Number(price), image || null])
ShoeValues(batch) ==
  [j \in 1..Len(batch) |->
     [name |-> batch[j].name, brand |-> batch[j].brand, price |-> batch[j].price,
      image |-> IF batch[j].image = "" THEN NullStr ELSE batch[j].image]]

\* invRows of one batch: insertedIds[idx] = insertId + idx
RECURSIVE BatchInventoryRows(_, _, _)
BatchInventoryRows(batch, insertId, j) ==
  IF j > Len(batch) THEN <<>>
  ELSE (IF batch[j].hasInventory
        THEN InventoryRows(insertId + j - 1, batch[j].inventory, 1)
        ELSE <<>>) \o BatchInventoryRows(batch, insertId, j + 1)

\* INSERT INTO shoes: the ids come from the counter, which moves on
InsertShoesQuery(s, f, values) ==
  LET t == Query(s, f, "INSERT shoes", InsertShoes(s.w, s.nextId, values))
  IN IF s.err = NoErr /\ t.err = NoErr THEN [t EXCEPT !.nextId = @ + Len(values)] ELSE t

RECURSIVE CreateChunks(_, _, _, _)
CreateChunks(s, f, list, i) ==
  IF i > Len(list) THEN s
  ELSE LET shoeBatch == SubSeq(list, i, Min(i + batchSize - 1, Len(list)))
           s1 == InsertShoesQuery(s, f, ShoeValues(shoeBatch))
           s2 == IF Len(list) = 1 THEN Query(s1, f, "SELECT shoes", Ok(s1.w)) ELSE s1
           s3 == InsertChunks(s2, f, BatchInventoryRows(shoeBatch, s.nextId, 1), 1)
       IN CreateChunks(s3, f, list, i + batchSize)

CreateFn(s0, f, list) ==
  [s |-> CreateChunks(s0, f, list, 1),
   out |-> IF Len(list) = 1 THEN "created" ELSE "ok"]

\* body.shoes, or the single-item form turned into a one-item list; <<>> when neither
PayloadShoes(body) ==
  IF body.kind = "list" THEN body.shoes
  ELSE IF body.name \notin {NullStr, ""} /\ body.brand \notin {NullStr, ""} /\ body.price # Null
  THEN << [name |-> body.name, brand |-> body.brand, price |-> body.price,
           image |-> body.image, hasInventory |-> TRUE,
           inventory |-> IF body.hasInventory THEN body.inventory
                         ELSE IF body.size # Null
                              THEN << [size |-> body.size, quantity |-> 1] >>
                              ELSE <<>>] >>
  ELSE <<>>

CreateHandler(db, nid, cache, method, claims, body, f1, f2, ce1, ce2) ==
  IF method = "OPTIONS" THEN Plain(200, db, nid, cache)
  ELSE IF ~IsAdmin(claims) THEN Plain(403, db, nid, cache)
  ELSE IF body.kind = "invalid" THEN Plain(400, db, nid, cache)
  ELSE IF Len(PayloadShoes(body)) = 0 THEN Plain(400, db, nid, cache)
  ELSE LET s0 == Session(db, nid)
           a1 == CreateFn(s0, f1, PayloadShoes(body))
           a2 == CreateFn(Again(a1), f2, PayloadShoes(body))
           o == withDb(cache, s0, a1, a2, ce1, ce2)
       IN WithStatus(o, StatusOf(o.out))

----------------------------------------------------------------------------
(* The seed handler (POST without a guard) *)

\* inventoryRows.push([shoeId, size, quantity]) for every item
RECURSIVE SeedInventoryRows(_, _, _)
SeedInventoryRows(batch, insertId, j) ==
  IF j > Len(batch) THEN <<>>
  ELSE (IF batch[j].hasInventory
        THEN [i \in 1..Len(batch[j].inventory) |->
                <<insertId + j - 1, batch[j].inventory[i].size,
                  batch[j].inventory[i].quantity>>]
        ELSE <<>>) \o SeedInventoryRows(batch, insertId, j + 1)

\* shoeBatch.map(({name, brand, price, image}) => [name, brand, price, image])
SeedValues(batch) ==
  [j \in 1..Len(batch) |->
     [name |-> batch[j].name, brand |-> batch[j].brand, price |-> batch[j].price,
      image |-> batch[j].image]]

RECURSIVE SeedChunks(_, _, _, _)
SeedChunks(s, f, list, i) ==
  IF i > Len(list) THEN s
  ELSE LET shoeBatch == SubSeq(list, i, Min(i + batchSize - 1, Len(list)))
           s1 == InsertShoesQuery(s, f, SeedValues(shoeBatch))
           s3 == InsertChunks(s1, f, SeedInventoryRows(shoeBatch, s.nextId, 1), 1)
       IN SeedChunks(s3, f, list, i + batchSize)

SeedFn(s0, f, body) ==
  IF body.kind = "invalid" THEN [s |-> [s0 EXCEPT !.err = "SyntaxError"], out |-> "throw"]
  ELSE IF body.kind # "list" \/ Len(body.shoes) = 0 THEN [s |-> s0, out |-> "badRequest"]
  ELSE [s |-> SeedChunks(s0, f, body.shoes, 1), out |-> "ok"]

SeedHandler(db, nid, cache, body, f1, ce1) ==
  LET s0 == Session(db, nid)
      o == getConnectionThen(cache, s0, SeedFn(s0, f1, body), ce1)
  IN WithStatus(o, StatusOf(o.out))

----------------------------------------------------------------------------
(* PUT /shoes/{id}, the handler of updateShoes.js *)

\* UPDATE shoes SET name, brand, price, size, in_stock, image: the table shoes
\* has no column size or in_stock, the store refuses the statement
LegacyUpdateFn(s0, f, shoeId, body) ==
  [s |-> Query(s0, f, "UPDATE shoes", Err(BadField, s0.w)),
   out |-> IF ShoeExists(s0.w, shoeId) THEN "ok" ELSE "notFound"]

\* no guard; every return is { statusCode, body } without a headers member
LegacyUpdateHandler(db, nid, cache, shoeId, body, f1, ce1) ==
  IF \/ ~body.valid
     \/ body.name \in {NullStr, ""} \/ body.brand \in {NullStr, ""}
     \/ body.price = Null \/ body.size = Null \/ body.in_stock = Null
     \/ body.image = NullStr
  THEN [Plain(400, db, nid, cache) EXCEPT !.headers = FALSE]
  ELSE LET s0 == Session(db, nid)
           o == getConnectionThen(cache, s0, LegacyUpdateFn(s0, f1, shoeId, body), ce1)
       IN [WithStatus(o, StatusOf(o.out)) EXCEPT !.headers = FALSE]

----------------------------------------------------------------------------
(* GET /shoes/{id} *)

GetFn(s0, f, shoeId) ==
  [s |-> Query(s0, f, "SELECT shoes JOIN shoe_inventory", Ok(s0.w)),
   out |-> IF ShoeExists(s0.w, shoeId) THEN "ok" ELSE "notFound"]

\* a read handler with the admin guard of the mutating handlers in front
GetGuarded(db, nid, cache, claims, shoeId, f1, ce1) ==
  IF ~IsAdmin(claims) THEN Plain(403, db, nid, cache)
  ELSE LET s0 == Session(db, nid)
           o == getConnectionThen(cache, s0, GetFn(s0, f1, shoeId), ce1)
       IN WithStatus(o, StatusOf(o.out))

\* the handler never reads the claims of the event
GetHandler(db, nid, cache, claims, shoeId, f1, ce1) ==
  LET s0 == Session(db, nid)
      o == getConnectionThen(cache, s0, GetFn(s0, f1, shoeId), ce1)
  IN WithStatus(o, StatusOf(o.out))

----------------------------------------------------------------------------
(* GET /shoes *)

\* WHERE s.brand = ? when the query string carries a brand, no filter otherwise
Matching(db, brand) ==
  {id \in DOMAIN db.shoes : brand \in {NullStr, ""} \/ db.shoes[id].brand = brand}

ListFn(s0, f, brand) ==
  [s |-> Query(s0, f, "SELECT shoes JOIN shoe_inventory", Ok(s0.w)), out |-> "ok"]

\* the handler never reads the claims of the event
ListHandler(db, nid, cache, claims, brand, f1, ce1) ==
  LET s0 == Session(db, nid)
      o == getConnectionThen(cache, s0, ListFn(s0, f1, brand), ce1)
  IN WithStatus(o, StatusOf(o.out))

----------------------------------------------------------------------------
(* Requests *)

----------------------------------------------------------------------------
(* Credentials: getSecret of the handler modules, getDbConfig of lib/config *)

ConfigErr == "SECRET_NAME env var is required"
StoreErr == "AccessDeniedException"
SyntaxErr == "SyntaxError"

\* the modules that resolve credentials: three handlers and lib/config.js
Resolvers == {"create", "update", "delete", "config"}

\* what the secret store answers: an error, or a SecretString
SecretStrings ==
  {[err |-> StoreErr, json |-> FALSE, host |-> NullStr, hostname |-> NullStr],
   [err |-> NoErr, json |-> FALSE, host |-> NullStr, hostname |-> NullStr],
   [err |-> NoErr, json |-> TRUE, host |-> "h", hostname |-> NullStr],
   [err |-> NoErr, json |-> TRUE, host |-> NullStr, hostname |-> "g"]}

NoSecret == [kind |-> "null", host |-> NullStr]

\* { host: process.env.DB_HOST, ... }
FromEnv == [kind |-> "env", host |-> "e"]

\* { host: s.host || s.hostname, ... }
Normalized(s) == [kind |-> "secret", host |-> IF s.host # NullStr THEN s.host ELSE s.hostname]

\* what a resolution did: the value returned or the error thrown, the cache it
\* leaves, and how often it contacted the secret store
Resolved(value, err, cached, contacts) ==
  [value |-> value, err |-> err, cached |-> cached, contacts |-> contacts]

\* client.send(new GetSecretValueCommand(...)); JSON.parse(response.SecretString)
Fetch(answer, cached, keep) ==
  IF answer.err # NoErr THEN Resolved(NoSecret, answer.err, cached, 1)
  ELSE IF ~answer.json THEN Resolved(NoSecret, SyntaxErr, cached, 1)
  ELSE Resolved(Normalized(answer), NoErr,
                IF keep THEN Normalized(answer) ELSE cached, 1)

\* const secretName = process.env.SECRET_NAME;
\* if (!secretName) throw new Error(...)   -- part_003 and lib/config.js only
NameRequired(m) == m \in {"delete", "config"}

\* let cachedSecret = null; ... if (cachedSecret) return cachedSecret;
Caches(m) == m # "config"

\* getSecret() of module m; for "config", getDbConfig()
getSecret(m, env, cached, answer) ==
  IF env.CONFIG_SOURCE # "SecretsManager" THEN Resolved(FromEnv, NoErr, cached, 0)
  ELSE IF Caches(m) /\ cached.kind # "null" THEN Resolved(cached, NoErr, cached, 0)
  ELSE IF env.SECRET_NAME = NullStr /\ NameRequired(m)
    THEN Resolved(NoSecret, ConfigErr, cached, 0)
  ELSE Fetch(answer, cached, Caches(m))

NoResolution ==
  [m |-> "none", called |-> FALSE, value |-> NoSecret, err |-> NoErr, contacts |-> 0,
   was |-> NoSecret]

\* a process that has resolved nothing, configured from the environment
NoSecretUse ==
  /\ cachedSecret = [m \in Resolvers |-> NoSecret]
  /\ processEnv = [CONFIG_SOURCE |-> "Env", SECRET_NAME |-> "admin_cred"]
  /\ lastSecret = NoResolution

Modules == {"create", "update", "delete", "seed", "get", "list", "legacy", "legacyDelete"}

Db == [shoes |-> shoes, inv |-> inv]

\* quantities stay within the model's range
QtyBounded(db) == \A k \in DOMAIN db.inv : \A i \in 1..Len(db.inv[k]) : db.inv[k][i] <= MaxQty

NoInventory == [has |-> FALSE, items |-> <<>>]

----------------------------------------------------------------------------
(* Response bodies *)

NoFields == [name |-> NullStr, brand |-> NullStr, price |-> Null, image |-> NullStr]

\* kind: "none" (not recorded) | "empty" | "message" | "shoe" | "row" | "list";
\* nested: the body has an inventory member
NoBody ==
  [kind |-> "none", id |-> Null, fields |-> NoFields, nested |-> FALSE,
   inventory |-> <<>>, count |-> Null, list |-> <<>>]

\* resp(200, null): the body is the empty string
EmptyBody == [NoBody EXCEPT !.kind = "empty"]

\* resp(status, { message: ... })
MessageBody == [NoBody EXCEPT !.kind = "message"]

\* the answer of the preflight short-circuit
Preflight(r) == r.status = 200 /\ r.out = "none"

\* a row of SELECT * FROM shoes WHERE id = ?
ShoeBody(db, id) ==
  [NoBody EXCEPT !.kind = "shoe", !.id = id,
                 !.fields = IF id \in DOMAIN db.shoes THEN db.shoes[id] ELSE NoFields]

\* the {size, quantity} pairs of the rows of shoe id among sizes, ORDER BY size
RECURSIVE SortedPairs(_, _, _)
SortedPairs(db, id, sizes) ==
  IF sizes = {} THEN <<>>
  ELSE LET z == CHOOSE z \in sizes : \A y \in sizes : z <= y
       IN [i \in 1..Len(db.inv[<<id, z>>]) |-> [size |-> z, quantity |-> db.inv[<<id, z>>][i]]]
          \o SortedPairs(db, id, sizes \ {z})

\* shoes LEFT JOIN shoe_inventory WHERE s.id = ? ORDER BY i.size, grouped
JoinedInventory(db, id) ==
  SortedPairs(db, id, {k[2] : k \in {k \in DOMAIN db.inv : k[1] = id}})

\* resp(201, createdRows[0]) or resp(200, { message: `... Inserted N shoes.` })
CreateBody(r, list) ==
  IF Preflight(r) THEN EmptyBody
  ELSE IF r.status = 201 THEN ShoeBody(r.db, r.nextId - 1)
  ELSE IF r.status = 200 THEN [MessageBody EXCEPT !.count = Len(list)]
  ELSE MessageBody

\* resp(200, rows[0]) of SELECT * FROM shoes WHERE id = ?
UpdateBody(r, shoeId) ==
  IF Preflight(r) THEN EmptyBody
  ELSE IF r.status = 200 THEN ShoeBody(r.db, shoeId)
  ELSE MessageBody

\* resp(200, rows[0] or { shoe_id, size, quantity: 0 })
PatchBodyOf(r, shoeId, size) ==
  IF Preflight(r) THEN EmptyBody
  ELSE IF r.status # 200 THEN MessageBody
  ELSE [NoBody EXCEPT !.kind = "row", !.id = shoeId,
          !.inventory = IF <<shoeId, size>> \in DOMAIN r.db.inv
                        THEN <<[size |-> size, quantity |-> r.db.inv[<<shoeId, size>>][1]]>>
                        ELSE <<[size |-> size, quantity |-> 0]>>]

\* the shoe with its nested inventory
GetBody(r, shoeId) ==
  IF r.status # 200 THEN MessageBody
  ELSE [ShoeBody(r.db, shoeId) EXCEPT !.nested = TRUE,
                                      !.inventory = JoinedInventory(r.db, shoeId)]

\* the rows of an inner join: a shoe without inventory rows gives no row
RECURSIVE JoinRowsInner(_, _)
JoinRowsInner(db, ids) ==
  IF ids = {} THEN <<>>
  ELSE LET id == CHOOSE x \in ids : \A y \in ids : x <= y
           pairs == JoinedInventory(db, id)
       IN [i \in 1..Len(pairs) |->
             [id |-> id, size |-> pairs[i].size, quantity |-> pairs[i].quantity]]
          \o JoinRowsInner(db, ids \ {id})

\* the rows of shoes LEFT JOIN shoe_inventory for the shoes ids, ORDER BY s.id, i.size;
\* a shoe without inventory rows gives one row with size and quantity NULL
RECURSIVE JoinRows(_, _)
JoinRows(db, ids) ==
  IF ids = {} THEN <<>>
  ELSE LET id == CHOOSE x \in ids : \A y \in ids : x <= y
           pairs == JoinedInventory(db, id)
           rows == IF pairs = <<>> THEN <<[id |-> id, size |-> Null, quantity |-> Null]>>
                   ELSE [i \in 1..Len(pairs) |->
                           [id |-> id, size |-> pairs[i].size, quantity |-> pairs[i].quantity]]
       IN rows \o JoinRows(db, ids \ {id})

\* the grouping loop: shoesMap keeps the shoes in the order of first appearance
RECURSIVE GroupRows(_, _, _)
GroupRows(acc, rows, db) ==
  IF rows = <<>> THEN acc
  ELSE LET row == Head(rows)
           acc1 == IF \E i \in 1..Len(acc) : acc[i].id = row.id THEN acc
                   ELSE Append(acc, [id |-> row.id, fields |-> db.shoes[row.id],
                                     inventory |-> <<>>])
           at == CHOOSE i \in 1..Len(acc1) : acc1[i].id = row.id
           acc2 == IF row.size # Null /\ row.quantity # Null
                   THEN [acc1 EXCEPT ![at].inventory =
                           Append(@, [size |-> row.size, quantity |-> row.quantity])]
                   ELSE acc1
       IN GroupRows(acc2, Tail(rows), db)

\* Array.from(shoesMap.values()), or the error message
ListBodyOf(r, brand) ==
  IF r.status # 200 THEN MessageBody
  ELSE [NoBody EXCEPT !.kind = "list",
                      !.list = GroupRows(<<>>, JoinRows(r.db, Matching(r.db, brand)), r.db)]

\* resp(200, null), resp(200, { message: 'Shoe deleted successfully.' }) or an error
DeleteBody(r) == IF Preflight(r) THEN EmptyBody ELSE MessageBody

NoReq == [kind |-> "none"]

\* the request of module m answered r; env.record tells whether the history keeps
\* the parsed request and the response body
\* no request is in flight: every request runs to completion in its step
NoneRunning == [base |-> [shoes |-> <<>>, inv |-> <<>>], overlap |-> FALSE, procs |-> <<>>]

Served(env, m, op, method, claims, id, sent, req, body, r) ==
  /\ r.nextId <= env.maxId + 1
  /\ QtyBounded(r.db)
  /\ running' = running
  /\ shoes' = r.db.shoes
  /\ inv' = r.db.inv
  /\ nextId' = r.nextId
  /\ cachedConn' = [cachedConn EXCEPT ![m] = r.cache]
  /\ last' = [op |-> op, method |-> method, admin |-> IsAdmin(claims), id |-> id,
              status |-> r.status, out |-> r.out, raised |-> r.raised,
              connErr |-> r.connErr, calls |-> r.calls, conns |-> r.conns,
              errs |-> r.errs, made |-> r.made, log |-> r.log,
              sent |-> IF r.status \in {200, 201} THEN sent ELSE NoInventory,
              headers |-> r.headers, txOpen |-> r.txOpen,
              req |-> IF env.record THEN req ELSE NoReq,
              body |-> IF env.record THEN body ELSE NoBody]

\* a request served on a process whose credentials play no part
Answer(env, m, op, method, claims, id, sent, req, body, r) ==
  /\ Served(env, m, op, method, claims, id, sent, req, body, r)
  /\ UNCHANGED <<cachedSecret, processEnv, lastSecret>>

\* the faults worth drawing: none when the request never reaches the store
FaultsFor(env, method, claims) ==
  IF method = "OPTIONS" \/ ~IsAdmin(claims) THEN {NoFault} ELSE env.faults

\* the outcome of connecting, drawn only when a connection has to be created
ConnErrsFor(env, cache) == IF cache = "connected" THEN {NoErr} ELSE env.connErrs

\* the operation was invoked a second time
Retried(r) == r.calls = 2

\* the body as the handler parsed it: the guard answers before the body is read
Parsed(method, claims, body) ==
  IF method = "OPTIONS" \/ ~IsAdmin(claims) THEN NoReq ELSE body

CreateProducts(env) ==
  \E method \in env.methods \cup {"POST"}, claims \in env.claims, body \in env.createBodies :
  \E f1 \in FaultsFor(env, method, claims), ce1 \in ConnErrsFor(env, cachedConn["create"]) :
    LET H(f2, ce2) == CreateHandler(Db, nextId, cachedConn["create"], method,
                                    claims, body, f1, f2, ce1, ce2)
        retried == Retried(H(NoFault, NoErr))
    IN \E f2 \in IF retried THEN env.faults2 ELSE {NoFault},
          ce2 \in IF retried THEN env.connErrs ELSE {NoErr} :
         Answer(env, "create", "POST", method, claims, 0, NoInventory,
                Parsed(method, claims, body),
                CreateBody(H(f2, ce2), PayloadShoes(body)), H(f2, ce2))

SeedShoes(env) ==
  \E body \in env.seedBodies :
  \E f1 \in env.faults, ce1 \in ConnErrsFor(env, cachedConn["seed"]) :
    Answer(env, "seed", "SEED", "POST", NoGroups, 0, NoInventory, NoReq, NoBody,
           SeedHandler(Db, nextId, cachedConn["seed"], body, f1, ce1))

UpdateProduct(env) ==
  \E method \in env.methods \cup {"PUT"}, claims \in env.claims, id \in env.ids,
     body \in env.putBodies :
  \E f1 \in FaultsFor(env, method, claims), ce1 \in ConnErrsFor(env, cachedConn["update"]) :
    LET r == UpdateHandler(Db, nextId, cachedConn["update"], method, claims, id,
                           body, f1, ce1)
    IN Answer(env, "update", "PUT", method, claims, id,
              [has |-> body.hasInventory, items |-> body.inventory],
              Parsed(method, claims, body), UpdateBody(r, id), r)

PatchInventory(env) ==
  \E method \in env.methods \cup {"PATCH"}, claims \in env.claims, id \in env.ids,
     body \in env.patchBodies :
  \E f1 \in FaultsFor(env, method, claims), ce1 \in ConnErrsFor(env, cachedConn["update"]) :
    LET r == PatchHandler(Db, nextId, cachedConn["update"], method, claims, id,
                          body, f1, ce1)
    IN Answer(env, "update", "PATCH", method, claims, id, NoInventory,
              Parsed(method, claims, body), PatchBodyOf(r, id, body.size), r)

GetProduct(env) ==
  \E claims \in env.claims, id \in env.ids :
  \E f1 \in env.faults, ce1 \in ConnErrsFor(env, cachedConn["get"]) :
    LET r == GetHandler(Db, nextId, cachedConn["get"], claims, id, f1, ce1)
    IN Answer(env, "get", "GET", "GET", claims, id, NoInventory, NoReq, GetBody(r, id), r)

\* the bodies of the PUT requests to updateShoes.js: without a body, without
\* a name, with every field
LegacyBodies ==
  {[valid |-> v, name |-> n, brand |-> "b", price |-> 1, size |-> 7, in_stock |-> 1,
    image |-> "u"] : v \in BOOLEAN, n \in {NullStr, "m"}}

\* the transaction of the unguarded DELETE handler and its catch block:
\* if (connection) await connection.rollback(); return 500
LegacyDeleteFn(s0, f, shoeId) ==
  LET s1 == Begin(s0, f)
      affected == shoeId \in DOMAIN s1.w.shoes
      s2 == Query(s1, f, "DELETE shoes", DeleteShoe(s1.w, shoeId))
      s3 == IF s2.err # NoErr THEN s2
            ELSE IF ~affected THEN Rollback(s2, f) ELSE Commit(s2, f)
      rb == Rollback([s3 EXCEPT !.err = NoErr], f)
  IN IF s3.err = NoErr
     THEN [s |-> s3, out |-> IF affected THEN "ok" ELSE "notFound", threw |-> FALSE]
     ELSE IF rb.err # NoErr THEN [s |-> rb, out |-> "uncaught", threw |-> TRUE]
     ELSE [s |-> [rb EXCEPT !.err = s3.err], out |-> "throw", threw |-> FALSE]

\* exports.handler of the unguarded DELETE /shoes/{id}; an exception thrown by
\* the catch block leaves the handler: no response
LegacyDeleteHandler(db, nid, cache, shoeId, f1, ce1) ==
  LET s0 == Session(db, nid)
      a1 == LegacyDeleteFn(s0, f1, shoeId)
      o == getConnectionThen(cache, s0, a1, ce1)
  IN IF o.connErr = NoErr /\ a1.threw
     THEN [WithStatus(o, 0) EXCEPT !.out = "uncaught", !.headers = FALSE]
     ELSE WithStatus(o, StatusOf(o.out))

LegacyDelete(env) ==
  \E claims \in env.claims, id \in env.ids :
  \E f1 \in env.faults, ce1 \in ConnErrsFor(env, cachedConn["legacyDelete"]) :
    LET r == LegacyDeleteHandler(Db, nextId, cachedConn["legacyDelete"], id, f1, ce1)
    IN Answer(env, "legacyDelete", "LEGACY_DELETE", "DELETE", claims, id, NoInventory,
              NoReq, IF r.out = "uncaught" THEN NoBody ELSE MessageBody, r)

LegacyUpdate(env) ==
  \E claims \in env.claims, id \in env.ids, body \in LegacyBodies :
  \E f1 \in env.faults, ce1 \in ConnErrsFor(env, cachedConn["legacy"]) :
    LET r == LegacyUpdateHandler(Db, nextId, cachedConn["legacy"], id, body, f1, ce1)
    IN Answer(env, "legacy", "LEGACY_PUT", "PUT", claims, id, NoInventory, NoReq,
              IF env.record THEN MessageBody ELSE NoBody, r)

\* the brands a list request filters by: none, the stored ones, one never stored
Brands == {NullStr, "b", "c", "d"}

ListProducts(env) ==
  \E claims \in env.claims, brand \in Brands :
  \E f1 \in env.faults, ce1 \in ConnErrsFor(env, cachedConn["list"]) :
    LET r == ListHandler(Db, nextId, cachedConn["list"], claims, brand, f1, ce1)
    IN Answer(env, "list", "LIST", "GET", claims, 0, NoInventory,
              [kind |-> "query", brand |-> brand], ListBodyOf(r, brand), r)

DeleteProduct(env) ==
  \E method \in env.methods \cup {"DELETE"}, claims \in env.claims, id \in env.ids :
  \E f1 \in FaultsFor(env, method, claims), ce1 \in ConnErrsFor(env, cachedConn["delete"]) :
    LET H(f2, ce2) == DeleteHandler(Db, nextId, cachedConn["delete"], method,
                                    claims, id, f1, f2, ce1, ce2)
        retried == Retried(H(NoFault, NoErr))
    IN \E f2 \in IF retried THEN env.faults2 ELSE {NoFault},
          ce2 \in IF retried THEN env.connErrs ELSE {NoErr} :
         Answer(env, "delete", "DELETE", method, claims, id, NoInventory, NoReq,
                DeleteBody(H(f2, ce2)), H(f2, ce2))

----------------------------------------------------------------------------
(* Payloads *)

Item(size, quantity) == [size |-> size, quantity |-> quantity]

Shoe(name, hasInventory, inventory) ==
  [name |-> name, brand |-> "b", price |-> 1, image |-> "u",
   hasInventory |-> hasInventory, inventory |-> inventory]

ListBody(list) ==
  [kind |-> "list", shoes |-> list, name |-> NullStr, brand |-> NullStr, price |-> Null,
   image |-> NullStr, size |-> Null, hasInventory |-> FALSE, inventory |-> <<>>]

SingleBody(name, size) ==
  [kind |-> "single", shoes |-> <<>>, name |-> name, brand |-> "b", price |-> 1,
   image |-> "u", size |-> size, hasInventory |-> FALSE, inventory |-> <<>>]

InvalidBody == [ListBody(<<>>) EXCEPT !.kind = "invalid"]

PutBody(name, hasInventory, inventory) ==
  [valid |-> TRUE, name |-> name, brand |-> NullStr, price |-> Null, image |-> NullStr,
   hasInventory |-> hasInventory, inventory |-> inventory]

PatchBody(size, quantity, delta) ==
  [valid |-> TRUE, size |-> size, quantity |-> quantity, delta |-> delta]

\* sizes 1..11 with quantity 1: one more row than a chunk holds
LongInventory == [i \in 1..(batchSize + 1) |-> Item(i, 1)]

----------------------------------------------------------------------------
(* Faults *)

Fault(p, e) == [at |-> p, err |-> e.err, dead |-> e.dead, rb |-> e.rb]

FaultsAt(positions, kinds) == {NoFault} \cup {Fault(p, e) : p \in positions, e \in kinds}

\* the connection is lost; a rollback on it throws the client's closed-state error
Lost == [err |-> ConnLost, dead |-> TRUE, rb |-> ClosedErr]
\* the connection is lost; a rollback on it throws the same fatal error again
LostEcho == [err |-> ConnLost, dead |-> TRUE, rb |-> ConnLost]
\* the statement times out on a connection that stays up
Slow == [err |-> TimedOut, dead |-> FALSE, rb |-> NoErr]
\* the store refuses the statement (deadlock victim)
Locked == [err |-> Deadlock, dead |-> FALSE, rb |-> NoErr]

NoRequest ==
  [op |-> "none", method |-> "none", admin |-> FALSE, id |-> 0, status |-> 0,
   out |-> "none", raised |-> NoErr, connErr |-> NoErr, calls |-> 0, conns |-> <<>>,
   errs |-> <<>>, made |-> 0, log |-> <<>>, sent |-> NoInventory, headers |-> TRUE,
   txOpen |-> FALSE, req |-> NoReq, body |-> NoBody]

TheShoe == [name |-> "n", brand |-> "b", price |-> 1, image |-> "u"]

----------------------------------------------------------------------------
(* Specification: the handlers that go through withDb, from a cold start,   *)
(* with store faults and connection failures                                *)

Env ==
  [maxId |-> MaxId, record |-> FALSE, methods |-> {"OPTIONS"}, claims |-> {NoGroups, AdminArr}, ids |-> Ids,
   faults |-> FaultsAt(1..3, {Lost, Locked}) \cup {Fault(2, Slow)},
   faults2 |-> {NoFault, Fault(1, Lost)},
   connErrs |-> {NoErr, ConnectTimeout},
   createBodies |-> {ListBody(<<Shoe("n", TRUE, <<Item(7, 1)>>)>>)},
   seedBodies |-> {}, putBodies |-> {}, patchBodies |-> {}]

Init ==
  /\ shoes = <<>>
  /\ inv = EmptyInv
  /\ nextId = 1
  /\ cachedConn = [m \in Modules |-> "null"]
  /\ last = NoRequest
  /\ running = NoneRunning
  /\ NoSecretUse

Next ==
  \/ CreateProducts(Env)
  \/ DeleteProduct(Env)

Spec == Init /\ [][Next]_vars

----------------------------------------------------------------------------
(* Specification: PUT and PATCH on a stored shoe, with store faults and     *)
(* connection failures                                                      *)

EnvUpdate ==
  [maxId |-> MaxId, record |-> FALSE, methods |-> {}, claims |-> {NoGroups, AdminArr}, ids |-> Ids,
   faults |-> FaultsAt(1..7, {Lost, Locked}),
   faults2 |-> {NoFault},
   connErrs |-> {NoErr, ConnectTimeout},
   createBodies |-> {}, seedBodies |-> {},
   putBodies |-> {PutBody("m", FALSE, <<>>), PutBody("m", TRUE, LongInventory),
                  PutBody(NullStr, TRUE, <<Item(9, 1)>>),
                  PutBody(NullStr, TRUE, <<Item(7, 1), Item(7, 2)>>)},
   patchBodies |-> {PatchBody(7, 2, Null), PatchBody(7, Null, -1), PatchBody(8, Null, 1)}]

InitUpdate ==
  /\ shoes = [i \in {1} |-> TheShoe]
  /\ inv = [k \in {<<1, 7>>, <<1, 8>>} |-> IF k[2] = 7 THEN <<2>> ELSE <<1>>]
  /\ nextId = 2
  /\ cachedConn = [m \in Modules |-> IF m = "create" THEN "connected" ELSE "null"]
  /\ last = NoRequest
  /\ running = NoneRunning
  /\ NoSecretUse

NextUpdate ==
  \/ UpdateProduct(EnvUpdate)
  \/ PatchInventory(EnvUpdate)

SpecUpdate == InitUpdate /\ [][NextUpdate]_vars

\* the two handlers that open a transaction, on a stored shoe, with store faults
EnvTx ==
  [maxId |-> MaxId, record |-> FALSE, methods |-> {}, claims |-> {AdminArr}, ids |-> Ids,
   faults |-> FaultsAt(1..5, {Lost, Locked}) \cup {Fault(2, Slow)},
   faults2 |-> {NoFault, Fault(2, Lost)},
   connErrs |-> {NoErr, ConnectTimeout},
   createBodies |-> {}, seedBodies |-> {},
   putBodies |-> {PutBody("m", FALSE, <<>>), PutBody(NullStr, TRUE, <<Item(9, 1)>>),
                  PutBody("m", TRUE, <<Item(7, 1), Item(7, 2)>>)},
   patchBodies |-> {}]

NextTx ==
  \/ UpdateProduct(EnvTx)
  \/ DeleteProduct(EnvTx)

SpecTx == InitUpdate /\ [][NextTx]_vars

\* every handler that writes, with store faults, bodies recorded
EnvErrors ==
  [maxId |-> MaxId, record |-> TRUE, methods |-> {}, claims |-> {NoGroups, AdminArr},
   ids |-> Ids,
   faults |-> FaultsAt(1..2, {Lost}) \cup {Fault(3, Locked)},
   faults2 |-> {NoFault, Fault(2, Lost)},
   connErrs |-> {NoErr, ConnectTimeout},
   createBodies |-> {}, seedBodies |-> {},
   putBodies |-> {PutBody("m", FALSE, <<>>)},
   patchBodies |-> {PatchBody(7, Null, 1)}]

NextErrors ==
  \/ UpdateProduct(EnvErrors)
  \/ PatchInventory(EnvErrors)
  \/ DeleteProduct(EnvErrors)
  \/ LegacyDelete(EnvErrors)

SpecErrors == InitUpdate /\ [][NextErrors]_vars


\* const secret = await getSecret(), called on its own
ResolveSecret ==
  \E m \in Resolvers, answer \in SecretStrings :
    LET r == getSecret(m, processEnv, cachedSecret[m], answer)
    IN /\ cachedSecret' = [cachedSecret EXCEPT ![m] = r.cached]
       /\ lastSecret' = [m |-> m, called |-> TRUE, value |-> r.value, err |-> r.err,
                         contacts |-> r.contacts, was |-> cachedSecret[m]]
       /\ UNCHANGED <<shoes, inv, nextId, cachedConn, last, running, processEnv>>

\* the credentials a request resolves: createConnection calls getSecret when
\* getConnection finds no live cached connection
SecretFor(m, answer) ==
  IF cachedConn[m] = "connected"
  THEN [NoResolution EXCEPT !.m = m, !.was = cachedSecret[m]]
  ELSE LET r == getSecret(m, processEnv, cachedSecret[m], answer)
       IN [m |-> m, called |-> TRUE, value |-> r.value, err |-> r.err,
           contacts |-> r.contacts, was |-> cachedSecret[m]]

\* a PUT or a DELETE of an administrator on a process that resolves its
\* credentials: a failed resolution is the error createConnection throws
ServeWithSecret(env) ==
  \E m \in {"update", "delete"}, id \in env.ids, answer \in SecretStrings,
     body \in env.putBodies, f1 \in env.faults :
    LET sec == SecretFor(m, answer)
        r == IF m = "update"
             THEN UpdateHandler(Db, nextId, cachedConn[m], "PUT", AdminArr, id, body,
                                f1, sec.err)
             ELSE DeleteHandler(Db, nextId, cachedConn[m], "DELETE", AdminArr, id,
                                f1, NoFault, sec.err, NoErr)
    IN /\ m = "delete" => body = PutBody("m", FALSE, <<>>)
       /\ Served(env, m, IF m = "update" THEN "PUT" ELSE "DELETE",
                 IF m = "update" THEN "PUT" ELSE "DELETE", AdminArr, id, NoInventory,
                 NoReq, NoBody, r)
       /\ cachedSecret' =
            IF sec.called
            THEN [cachedSecret EXCEPT ![m] =
                    getSecret(m, processEnv, cachedSecret[m], answer).cached]
            ELSE cachedSecret
       /\ lastSecret' = sec
       /\ processEnv' = processEnv

EnvSecret ==
  [maxId |-> MaxId, record |-> FALSE, methods |-> {}, claims |-> {AdminArr}, ids |-> Ids,
   faults |-> {NoFault, Fault(2, Lost)}, faults2 |-> {NoFault}, connErrs |-> {NoErr},
   createBodies |-> {}, seedBodies |-> {},
   putBodies |-> {PutBody("m", FALSE, <<>>)}, patchBodies |-> {}]

\* a cold process in either configuration mode, SECRET_NAME set or not
InitSecret ==
  /\ shoes = [i \in {1} |-> TheShoe]
  /\ inv = EmptyInv
  /\ nextId = 2
  /\ cachedConn = [m \in Modules |-> "null"]
  /\ last = NoRequest
  /\ running = NoneRunning
  /\ cachedSecret = [m \in Resolvers |-> NoSecret]
  /\ processEnv \in [CONFIG_SOURCE : {"SecretsManager", "Env"},
                      SECRET_NAME : {"admin_cred", NullStr}]
  /\ lastSecret = NoResolution

NextSecret ==
  \/ ResolveSecret
  \/ ServeWithSecret(EnvSecret)

SpecSecret == InitSecret /\ [][NextSecret]_vars

----------------------------------------------------------------------------
(* Specification: every handler on warm connections, without faults         *)

Catalog ==
  [maxId |-> MaxId, record |-> FALSE, methods |-> {}, claims |-> {NoGroups, AdminArr}, ids |-> Ids,
   faults |-> {NoFault}, faults2 |-> {NoFault}, connErrs |-> {NoErr},
   createBodies |-> {InvalidBody, ListBody(<<>>), SingleBody("n", 7), SingleBody("", 7),
                     ListBody(<<Shoe("n", TRUE, <<Item(7, -1)>>)>>),
                     ListBody(<<Shoe("n", TRUE, <<Item(7, 1), Item(7, 2)>>)>>)},
   seedBodies |-> {InvalidBody, SingleBody("n", 7),
                   ListBody(<<Shoe("n", TRUE, <<Item(7, 2)>>)>>)},
   putBodies |-> {[PutBody("n", FALSE, <<>>) EXCEPT !.valid = FALSE],
                  PutBody("n", FALSE, <<>>), PutBody(NullStr, TRUE, <<>>),
                  PutBody(NullStr, TRUE, <<Item(7, 0)>>),
                  PutBody("n", TRUE, <<Item(Null, 1), Item(7, 2)>>),
                  PutBody(NullStr, TRUE, <<Item(7, 1), Item(7, 2)>>)},
   patchBodies |-> {[PatchBody(7, 1, Null) EXCEPT !.valid = FALSE],
                    PatchBody(Null, 1, Null), PatchBody(7, 1, 1), PatchBody(7, Null, Null),
                    PatchBody(7, -1, Null), PatchBody(7, 0, Null), PatchBody(7, 2, Null),
                    PatchBody(7, Null, -3), PatchBody(7, Null, -1), PatchBody(7, Null, 0),
                    PatchBody(7, Null, 1)}]

InitCatalog ==
  /\ shoes = <<>>
  /\ inv = EmptyInv
  /\ nextId = 1
  /\ cachedConn = [m \in Modules |-> "connected"]
  /\ last = NoRequest
  /\ running = NoneRunning
  /\ NoSecretUse

NextCatalog ==
  \/ CreateProducts(Catalog)
  \/ SeedShoes(Catalog)
  \/ UpdateProduct(Catalog)
  \/ PatchInventory(Catalog)
  \/ DeleteProduct(Catalog)

SpecCatalog == InitCatalog /\ [][NextCatalog]_vars

----------------------------------------------------------------------------
(* Specification: creating and reading shoes on warm connections, without   *)
(* faults, the history keeping requests and response bodies                 *)

EnvBodies ==
  [maxId |-> MaxId, record |-> TRUE, methods |-> {}, claims |-> {NoGroups, AdminArr},
   ids |-> Ids, faults |-> {NoFault}, faults2 |-> {NoFault}, connErrs |-> {NoErr},
   createBodies |-> {InvalidBody, ListBody(<<>>), SingleBody("n", 7), SingleBody("", 7),
                     ListBody(<<Shoe("n", TRUE, <<Item(7, 0)>>)>>),
                     ListBody(<<Shoe("", TRUE, <<Item(8, 2)>>)>>),
                     ListBody(<<Shoe("n", FALSE, <<>>),
                                Shoe("m", TRUE, <<Item(8, 2), Item(7, 1)>>)>>)},
   seedBodies |-> {}, putBodies |-> {}, patchBodies |-> {}]

InitBodies ==
  /\ shoes = <<>>
  /\ inv = EmptyInv
  /\ nextId = 1
  /\ cachedConn = [m \in Modules |-> "connected"]
  /\ last = NoRequest
  /\ running = NoneRunning
  /\ NoSecretUse

NextBodies ==
  \/ CreateProducts(EnvBodies)
  \/ GetProduct(EnvBodies)
  \/ DeleteProduct(EnvBodies)

SpecBodies == InitBodies /\ [][NextBodies]_vars

\* POST /shoes through withDb with the connection lost at one of its queries
EnvRetry ==
  [maxId |-> MaxId + 2, record |-> TRUE, methods |-> {}, claims |-> {AdminArr},
   ids |-> Ids,
   faults |-> FaultsAt(1..4, {Lost}), faults2 |-> {NoFault}, connErrs |-> {NoErr},
   createBodies |-> {SingleBody("n", 7),
                     ListBody(<<Shoe("n", FALSE, <<>>), Shoe("m", TRUE, <<Item(8, 2)>>)>>)},
   seedBodies |-> {}, putBodies |-> {}, patchBodies |-> {}]

NextRetry ==
  \/ CreateProducts(EnvRetry)
  \/ DeleteProduct(EnvRetry)

SpecRetry == InitBodies /\ [][NextRetry]_vars

\* DELETE /shoes/{id} with a transient error at the DELETE statement, the
\* second call on the connection
EnvLostDelete ==
  [maxId |-> MaxId, record |-> TRUE, methods |-> {}, claims |-> {AdminArr}, ids |-> Ids,
   faults |-> {NoFault, Fault(2, Lost), Fault(2, LostEcho), Fault(2, Slow)},
   faults2 |-> {NoFault}, connErrs |-> {NoErr},
   createBodies |-> {SingleBody("n", 7), ListBody(<<Shoe("m", TRUE, <<Item(8, 2)>>)>>)},
   seedBodies |-> {}, putBodies |-> {}, patchBodies |-> {}]

NextLostDelete ==
  \/ CreateProducts(EnvLostDelete)
  \/ DeleteProduct(EnvLostDelete)

SpecLostDelete == InitBodies /\ [][NextLostDelete]_vars

----------------------------------------------------------------------------
(* Specification: PUT, PATCH and DELETE on a stored shoe and on missing     *)
(* ones, on warm connections, without faults, the history keeping requests  *)
(* and response bodies                                                      *)

EnvInventory ==
  [maxId |-> MaxId, record |-> TRUE, methods |-> {}, claims |-> {NoGroups, AdminArr},
   ids |-> Ids, faults |-> {NoFault}, faults2 |-> {NoFault}, connErrs |-> {NoErr},
   createBodies |-> {}, seedBodies |-> {},
   putBodies |-> {[PutBody("m", FALSE, <<>>) EXCEPT !.valid = FALSE],
                  PutBody("m", FALSE, <<>>), PutBody(NullStr, FALSE, <<>>),
                  [PutBody("n", FALSE, <<>>) EXCEPT !.price = 2, !.image = "v"],
                  [PutBody(NullStr, FALSE, <<>>) EXCEPT !.image = ""],
                  PutBody(NullStr, TRUE, <<>>),
                  PutBody(NullStr, TRUE, <<Item(9, 2), Item(7, 1)>>)},
   patchBodies |-> {[PatchBody(7, 1, Null) EXCEPT !.valid = FALSE],
                    PatchBody(Null, 1, Null), PatchBody(7, 1, 1), PatchBody(7, Null, Null),
                    PatchBody(7, -1, Null), PatchBody(7, 0, Null), PatchBody(7, 2, Null), PatchBody(9, 1, Null),
                    PatchBody(7, Null, -3), PatchBody(7, Null, -1), PatchBody(7, Null, 1),
                    PatchBody(9, Null, 2), PatchBody(9, Null, -1)}]

InitInventory ==
  /\ shoes = [i \in {1} |-> TheShoe]
  /\ inv = [k \in {<<1, 7>>, <<1, 8>>} |-> IF k[2] = 7 THEN <<2>> ELSE <<1>>]
  /\ nextId = 2
  /\ cachedConn = [m \in Modules |-> "connected"]
  /\ last = NoRequest
  /\ running = NoneRunning
  /\ NoSecretUse

NextInventory ==
  \/ UpdateProduct(EnvInventory)
  \/ PatchInventory(EnvInventory)
  \/ DeleteProduct(EnvInventory)

SpecInventory == InitInventory /\ [][NextInventory]_vars

\* the values of cognito:groups: absent, arrays, and strings of up to
\* MaxGroupsLen characters
GroupClaims ==
  {NoGroups, AdminArr, UserArr}
    \cup {[kind |-> "array", items |-> a] :
            a \in {<<>>, <<"user", "admin">>, <<"admin", "user">>, <<"user", "users">>}}
    \cup {[kind |-> "string", items |-> str] :
            str \in UNION {[1..n -> {"a", "d", ","}] : n \in 0..MaxGroupsLen}}

EnvGuard ==
  [maxId |-> MaxId, record |-> TRUE, methods |-> {}, claims |-> GroupClaims, ids |-> {1},
   faults |-> {NoFault}, faults2 |-> {NoFault}, connErrs |-> {NoErr},
   createBodies |-> {SingleBody("n", 7)}, seedBodies |-> {},
   putBodies |-> {PutBody("m", FALSE, <<>>)},
   patchBodies |-> {PatchBody(7, 2, Null)}]

\* a mutating request with its claims kept: POST, PUT, PATCH or DELETE
GuardedRequest(env) ==
  \E claims \in env.claims, op \in {"POST", "PUT", "PATCH", "DELETE"}, id \in env.ids,
     cb \in env.createBodies, ub \in env.putBodies, pb \in env.patchBodies :
    LET m == IF op = "POST" THEN "create" ELSE IF op = "DELETE" THEN "delete" ELSE "update"
        r == IF op = "POST"
             THEN CreateHandler(Db, nextId, cachedConn[m], op, claims, cb,
                                NoFault, NoFault, NoErr, NoErr)
             ELSE IF op = "PUT"
             THEN UpdateHandler(Db, nextId, cachedConn[m], op, claims, id, ub, NoFault, NoErr)
             ELSE IF op = "PATCH"
             THEN PatchHandler(Db, nextId, cachedConn[m], op, claims, id, pb, NoFault, NoErr)
             ELSE DeleteHandler(Db, nextId, cachedConn[m], op, claims, id,
                                NoFault, NoFault, NoErr, NoErr)
    IN Answer(env, m, op, op, claims, IF op = "POST" THEN 0 ELSE id, NoInventory,
              [kind |-> "claims", claims |-> claims], NoBody, r)

NextGuard == GuardedRequest(EnvGuard)

SpecGuard == InitInventory /\ [][NextGuard]_vars

----------------------------------------------------------------------------
(* Specification: POST of batches longer than one chunk, with statements    *)
(* that the store refuses                                                   *)

MaxBatchId == 12   \* ids the counter may hand out where batches span two chunks

\* batchSize + 1 shoes with one inventory row each; with repeat, the last shoe
\* repeats its size
Batch(repeat) ==
  ListBody([j \in 1..(batchSize + 1) |->
              Shoe("n", TRUE, IF repeat /\ j = batchSize + 1
                              THEN <<Item(7, 1), Item(7, 1)>>
                              ELSE <<Item(7, 1)>>)])

EnvBatch ==
  [maxId |-> MaxBatchId, record |-> TRUE, methods |-> {}, claims |-> {AdminArr},
   ids |-> {1, batchSize + 1},
   faults |-> FaultsAt(1..4, {Locked}), faults2 |-> {NoFault}, connErrs |-> {NoErr},
   createBodies |-> {Batch(FALSE), Batch(TRUE)},
   seedBodies |-> {}, putBodies |-> {}, patchBodies |-> {}]

InitBatch ==
  /\ shoes = <<>>
  /\ inv = EmptyInv
  /\ nextId = 1
  /\ cachedConn = [m \in Modules |-> "connected"]
  /\ last = NoRequest
  /\ running = NoneRunning
  /\ NoSecretUse

NextBatch ==
  \/ CreateProducts(EnvBatch)
  \/ DeleteProduct(EnvBatch)

SpecBatch == InitBatch /\ [][NextBatch]_vars

\* the four guarded operations with preflight requests, from a cold start
EnvPreflight ==
  [maxId |-> MaxId, record |-> TRUE, methods |-> {"OPTIONS"},
   claims |-> {NoGroups, UserArr, AdminArr}, ids |-> Ids,
   faults |-> {NoFault}, faults2 |-> {NoFault}, connErrs |-> {NoErr},
   createBodies |-> {InvalidBody, SingleBody("n", 7)},
   seedBodies |-> {},
   putBodies |-> {PutBody("m", FALSE, <<>>)},
   patchBodies |-> {PatchBody(7, 1, Null)}]

InitPreflight ==
  /\ shoes = <<>>
  /\ inv = EmptyInv
  /\ nextId = 1
  /\ cachedConn = [m \in Modules |-> "null"]
  /\ last = NoRequest
  /\ running = NoneRunning
  /\ NoSecretUse

NextPreflight ==
  \/ CreateProducts(EnvPreflight)
  \/ UpdateProduct(EnvPreflight)
  \/ PatchInventory(EnvPreflight)
  \/ DeleteProduct(EnvPreflight)

SpecPreflight == InitPreflight /\ [][NextPreflight]_vars

\* the two read handlers next to creations and deletions, for every kind of claims
EnvReads ==
  [maxId |-> MaxId, record |-> TRUE, methods |-> {},
   claims |-> {NoGroups, UserArr, AdminArr}, ids |-> Ids,
   faults |-> {NoFault}, faults2 |-> {NoFault}, connErrs |-> {NoErr},
   createBodies |-> {ListBody(<<Shoe("n", FALSE, <<>>)>>),
                     ListBody(<<Shoe("n", TRUE, <<Item(9, 1)>>)>>),
                     ListBody(<<[Shoe("m", TRUE, <<Item(8, 2), Item(7, 1)>>)
                                   EXCEPT !.brand = "c"]>>)},
   seedBodies |-> {}, putBodies |-> {}, patchBodies |-> {}]

InitReads ==
  /\ shoes = <<>>
  /\ inv = EmptyInv
  /\ nextId = 1
  /\ cachedConn = [m \in Modules |-> "connected"]
  /\ last = NoRequest
  /\ running = NoneRunning
  /\ NoSecretUse

NextReads ==
  \/ CreateProducts(EnvReads)
  \/ GetProduct(EnvReads)
  \/ ListProducts(EnvReads)
  \/ DeleteProduct(EnvReads)

SpecReads == InitReads /\ [][NextReads]_vars

\* the handlers of SpecReads and the PUT handler of updateShoes.js
NextHeaders ==
  \/ CreateProducts(EnvReads)
  \/ GetProduct(EnvReads)
  \/ ListProducts(EnvReads)
  \/ DeleteProduct(EnvReads)
  \/ LegacyUpdate(EnvReads)

SpecHeaders == InitReads /\ [][NextHeaders]_vars

----------------------------------------------------------------------------
(* Requests in flight on separate process instances: one step per statement *)

Instances == 1..MaxInstances

Proc(op, id, body) ==
  [op |-> op, id |-> id, body |-> body, pc |-> "start", status |-> 0, seen |-> Null,
   applied |-> FALSE, stored |-> Null]

\* instance p moves on to next; overlap records that another request was under way
Move(p, next) ==
  running' =
    [running EXCEPT !.procs[p] = next,
                    !.overlap = @ \/ \E q \in Instances \ {p} :
                                       running.procs[q].pc \notin {"start", "done"}]

Advance(p, pc, status, seen) ==
  Move(p, [running.procs[p] EXCEPT !.pc = pc, !.status = status, !.seen = seen])

\* const [exists] = await conn.query('SELECT id FROM shoes WHERE id = ?')
PatchShoeCheck(p) ==
  LET me == running.procs[p]
  IN /\ me.op = "PATCH" /\ me.pc = "start"
     /\ IF ~ShoeExists(Db, me.id) THEN Advance(p, "done", 404, Null)
        ELSE IF me.body.quantity # Null /\ me.body.quantity < 0
        THEN Advance(p, "done", 400, Null)
        ELSE Advance(p, "found", 0, Null)
     /\ UNCHANGED <<shoes, inv, nextId, cachedConn, last, cachedSecret, processEnv, lastSecret>>

\* the upsert of the absolute mode or of a positive delta: one statement
PatchUpsert(p) ==
  LET me == running.procs[p]
      r == IF me.body.quantity # Null
           THEN UpsertAbsolute(Db, me.id, me.body.size, me.body.quantity)
           ELSE UpsertAdd(Db, me.id, me.body.size, me.body.delta)
  IN /\ me.op = "PATCH" /\ me.pc = "found"
     /\ me.body.quantity # Null \/ me.body.delta > 0
     /\ inv' = r.w.inv
     /\ Advance(p, "written", 0, Null)
     /\ UNCHANGED <<shoes, nextId, cachedConn, last, cachedSecret, processEnv, lastSecret>>

\* const [curRows] = await conn.query('SELECT quantity FROM shoe_inventory ...')
PatchRowCheck(p) ==
  LET me == running.procs[p]
  IN /\ me.op = "PATCH" /\ me.pc = "found"
     /\ me.body.quantity = Null /\ me.body.delta < 0
     /\ IF HasRow(Db, me.id, me.body.size)
        THEN Advance(p, "hasRow", 0, inv[<<me.id, me.body.size>>][1])
        ELSE Advance(p, "done", 400, Null)
     /\ UNCHANGED <<shoes, inv, nextId, cachedConn, last, cachedSecret, processEnv, lastSecret>>

\* the decrement computed by the handler from the quantity it read
PatchDecrementFromRead(p) ==
  LET me == running.procs[p]
  IN /\ me.op = "PATCH" /\ me.pc = "hasRow"
     /\ inv' = UpsertAbsolute(Db, me.id, me.body.size, Max(0, me.seen + me.body.delta)).w.inv
     /\ Advance(p, "written", 0, me.seen)
     /\ UNCHANGED <<shoes, nextId, cachedConn, last, cachedSecret, processEnv, lastSecret>>

\* UPDATE shoe_inventory SET quantity = GREATEST(0, quantity + ?): one statement
PatchDecrement(p) ==
  LET me == running.procs[p]
  IN /\ me.op = "PATCH" /\ me.pc = "hasRow"
     /\ inv' = UpdateClamped(Db, me.id, me.body.size, me.body.delta).w.inv
     /\ Move(p, [me EXCEPT !.pc = "written",
                           !.applied = HasRow(Db, me.id, me.body.size),
                           !.stored = IF HasRow(Db, me.id, me.body.size)
                                      THEN inv'[<<me.id, me.body.size>>][1] ELSE Null])
     /\ UNCHANGED <<shoes, nextId, cachedConn, last, cachedSecret, processEnv, lastSecret>>

\* the final SELECT of the row and resp(200, ...)
PatchReadBack(p) ==
  LET me == running.procs[p]
  IN /\ me.op = "PATCH" /\ me.pc = "written"
     /\ Advance(p, "done", 200,
                IF HasRow(Db, me.id, me.body.size) THEN inv[<<me.id, me.body.size>>][1]
                ELSE 0)
     /\ UNCHANGED <<shoes, inv, nextId, cachedConn, last, cachedSecret, processEnv, lastSecret>>

\* the PATCH bodies the instances send, all for size 7 of shoe 1
RacePatches ==
  {PatchBody(7, 0, Null), PatchBody(7, 2, Null), PatchBody(7, Null, 1),
   PatchBody(7, Null, 2), PatchBody(7, Null, -1), PatchBody(7, Null, -3)}

\* shoe 1 is stored, with no row for size 7 or with one of quantity 0 or 2; every
\* instance holds a warm connection and a PATCH to serve
InitPatchRace ==
  /\ shoes = [i \in {1} |-> TheShoe]
  /\ inv \in {EmptyInv} \cup {[k \in {<<1, 7>>} |-> <<q>>] : q \in {0, 2}}
  /\ nextId = 2
  /\ cachedConn = [m \in Modules |-> "connected"]
  /\ last = NoRequest
  /\ \E f \in [Instances -> RacePatches] :
       running = [base |-> [shoes |-> shoes, inv |-> inv], overlap |-> FALSE,
                  procs |-> [p \in Instances |-> Proc("PATCH", 1, f[p])]]
  /\ NoSecretUse

NextPatchRace ==
  \E p \in Instances :
    \/ PatchShoeCheck(p)
    \/ PatchUpsert(p)
    \/ PatchRowCheck(p)
    \/ PatchDecrement(p)
    \/ PatchReadBack(p)

SpecPatchRace == InitPatchRace /\ [][NextPatchRace]_vars

\* DELETE /shoes/{id} as one committed transaction; the store is taken to
\* remove the inventory rows of the shoe with it
RivalDelete(p) ==
  LET me == running.procs[p]
      gone == DeleteInventory([shoes |-> [i \in DOMAIN shoes \ {me.id} |-> shoes[i]],
                               inv |-> inv], me.id).w
  IN /\ me.op = "DELETE" /\ me.pc = "start"
     /\ IF ShoeExists(Db, me.id)
        THEN shoes' = gone.shoes /\ inv' = gone.inv /\ Advance(p, "done", 200, Null)
        ELSE UNCHANGED <<shoes, inv>> /\ Advance(p, "done", 404, Null)
     /\ UNCHANGED <<nextId, cachedConn, last, cachedSecret, processEnv, lastSecret>>

\* PUT /shoes/{id} with an inventory list as one committed transaction: the
\* rows of the shoe replaced by the rows of the list
RivalPut(p) ==
  LET me == running.procs[p]
      cleared == DeleteInventory(Db, me.id).w
      r == InsertInventory(cleared, InventoryRows(me.id, me.body.inventory, 1))
  IN /\ me.op = "PUT" /\ me.pc = "start"
     /\ IF ~ShoeExists(Db, me.id) THEN inv' = inv /\ Advance(p, "done", 404, Null)
        ELSE IF r.err # NoErr THEN inv' = inv /\ Advance(p, "done", 500, Null)
        ELSE inv' = r.w.inv /\ Advance(p, "done", 200, Null)
     /\ UNCHANGED <<shoes, nextId, cachedConn, last, cachedSecret, processEnv, lastSecret>>

\* the requests that run beside the PATCH
Rivals ==
  {Proc("DELETE", 1, PatchBody(Null, Null, Null)),
   Proc("PUT", 1, PutBody(NullStr, TRUE, <<>>)),
   Proc("PUT", 1, PutBody(NullStr, TRUE, <<Item(7, 1)>>))}

\* shoe 1 is stored with or without a row for size 7; the first instance
\* serves a PATCH, the others a DELETE or an inventory replacement
InitPatchRivals ==
  /\ shoes = [i \in {1} |-> TheShoe]
  /\ inv \in {EmptyInv} \cup {[k \in {<<1, 7>>} |-> <<q>>] : q \in {1, 2}}
  /\ nextId = 2
  /\ cachedConn = [m \in Modules |-> "connected"]
  /\ last = NoRequest
  /\ \E b \in RacePatches, f \in [Instances \ {1} -> Rivals] :
       running = [base |-> [shoes |-> shoes, inv |-> inv], overlap |-> FALSE,
                  procs |-> [p \in Instances |->
                               IF p = 1 THEN Proc("PATCH", 1, b) ELSE f[p]]]
  /\ NoSecretUse

NextPatchRivals ==
  \E p \in Instances :
    \/ PatchShoeCheck(p)
    \/ PatchUpsert(p)
    \/ PatchRowCheck(p)
    \/ PatchDecrement(p)
    \/ PatchReadBack(p)
    \/ RivalDelete(p)
    \/ RivalPut(p)

SpecPatchRivals == InitPatchRivals /\ [][NextPatchRivals]_vars

\* a price that tells which shoe of which payload a row is
PriceTag(p, j) == p * (batchSize + 2) + j

\* the payload instance p serves: n shoes, shoe j with one inventory item of
\* size j and quantity p
TaggedList(p, n) ==
  [j \in 1..n |-> [Shoe("n", TRUE, <<Item(j, p)>>) EXCEPT !.price = PriceTag(p, j)]]

\* every inventory row under the id of the first shoe of its chunk
FirstIdForAll(insertId, idx) == insertId

\* const insertedIds = shoeBatch.map((_, idx) => shoeResult.insertId + idx)
insertedIds(insertId, idx) == insertId + idx

RECURSIVE ChunkRows(_, _, _)
\* shoeBatch.forEach((shoe, idx) => ... invRows.push([insertedIds[idx], size, quantity]))
ChunkRows(shoeBatch, insertId, j) ==
  IF j > Len(shoeBatch) THEN <<>>
  ELSE InventoryRows(insertedIds(insertId, j - 1), shoeBatch[j].inventory, 1)
         \o ChunkRows(shoeBatch, insertId, j + 1)

\* the chunk of the payload a POST is at
ShoeBatchOf(me) ==
  SubSeq(me.body, me.stored, Min(me.stored + batchSize - 1, Len(me.body)))

\* INSERT INTO shoes (name, brand, price, image) VALUES ?: one statement, which
\* takes consecutive ids from the counter and reports the first
CreateInsertShoes(p) ==
  LET me == running.procs[p]
      r == InsertShoes(Db, nextId, ShoeValues(ShoeBatchOf(me)))
  IN /\ me.op = "POST" /\ me.pc = "start"
     /\ shoes' = r.w.shoes
     /\ nextId' = nextId + Len(ShoeBatchOf(me))
     /\ Advance(p, "inserted", 0, nextId)
     /\ UNCHANGED <<inv, cachedConn, last, cachedSecret, processEnv, lastSecret>>

\* INSERT INTO shoe_inventory (shoe_id, size, quantity) VALUES ? for the rows
\* of the chunk (at most batchSize here), then the next chunk or the response
CreateInsertInventory(p) ==
  LET me == running.procs[p]
      r == InsertInventory(Db, ChunkRows(ShoeBatchOf(me), me.seen, 1))
  IN /\ me.op = "POST" /\ me.pc = "inserted"
     /\ inv' = r.w.inv
     /\ IF r.err # NoErr THEN Advance(p, "done", 500, me.seen)
        ELSE IF me.stored + batchSize > Len(me.body) THEN Advance(p, "done", 200, me.seen)
        ELSE Move(p, [me EXCEPT !.pc = "start", !.stored = @ + batchSize])
     /\ UNCHANGED <<shoes, nextId, cachedConn, last, cachedSecret, processEnv, lastSecret>>

\* an empty catalog; every instance serves a POST of one, two or batchSize + 1
\* shoes
InitCreateRace ==
  /\ shoes = <<>>
  /\ inv = EmptyInv
  /\ nextId = 1
  /\ cachedConn = [m \in Modules |-> "connected"]
  /\ last = NoRequest
  /\ \E n \in [Instances -> {1, 2, batchSize + 1}] :
       running = [base |-> [shoes |-> shoes, inv |-> inv], overlap |-> FALSE,
                  procs |-> [p \in Instances |->
                               [Proc("POST", 0, TaggedList(p, n[p])) EXCEPT !.stored = 1]]]
  /\ NoSecretUse

NextCreateRace ==
  \E p \in Instances :
    \/ CreateInsertShoes(p)
    \/ CreateInsertInventory(p)

SpecCreateRace == InitCreateRace /\ [][NextCreateRace]_vars

----------------------------------------------------------------------------
(* PUT and DELETE in flight: transactions of the store                     *)
(* (InnoDB, REPEATABLE READ: a plain SELECT reads the snapshot taken by    *)
(* the transaction's first plain SELECT; UPDATE and DELETE read the        *)
(* committed row and lock it until the transaction ends)                   *)

\* lock: the instance holds the lock of row id of shoes; snap: the snapshot of
\* shoes its plain SELECTs read; pend: it has written row id of shoes;
\* touched, winv: it has written shoe_inventory, and its view of that table;
\* gone: row id was no longer committed when it committed
TxProc(op, id, body) ==
  [op |-> op, id |-> id, body |-> body, pc |-> "start", status |-> 0, seen |-> Null,
   lock |-> FALSE, snap |-> [taken |-> FALSE, shoes |-> <<>>], pend |-> FALSE,
   touched |-> FALSE, winv |-> <<>>, gone |-> FALSE, answer |-> NoBody]

\* another transaction holds the lock of row id of shoes
LockedByOther(p, id) ==
  \E q \in Instances \ {p} : running.procs[q].lock /\ running.procs[q].id = id

\* the transaction ends without a commit: its writes are dropped, its lock released
Ended(me, status) ==
  [me EXCEPT !.pc = "done", !.status = status, !.lock = FALSE, !.pend = FALSE,
             !.touched = FALSE, !.answer = MessageBody]

\* await conn.beginTransaction()
TxBegin(p) ==
  LET me == running.procs[p]
  IN /\ me.op \in {"PUT", "DELETE"} /\ me.pc = "start"
     /\ Move(p, [me EXCEPT !.pc = "begun"])
     /\ UNCHANGED <<shoes, inv, nextId, cachedConn, last, cachedSecret, processEnv, lastSecret>>

\* UPDATE shoes SET ... WHERE id = ?, then the affectedRows test
PutFields(p) ==
  LET me == running.procs[p]
      sets == PutSets(me.body)
      r == UpdateShoe(Db, me.id, sets)
  IN /\ me.op = "PUT" /\ me.pc = "begun" /\ DOMAIN sets # {}
     /\ ~LockedByOther(p, me.id)
     /\ IF r.err # NoErr THEN Move(p, Ended(me, 500))
        ELSE IF ~ShoeExists(Db, me.id) THEN Move(p, Ended(me, 404))
        ELSE Move(p, [me EXCEPT !.pc = "checked", !.lock = TRUE, !.pend = TRUE])
     /\ UNCHANGED <<shoes, inv, nextId, cachedConn, last, cachedSecret, processEnv, lastSecret>>

\* SELECT id FROM shoes WHERE id = ?: a plain SELECT, it takes no lock
PutExists(p) ==
  LET me == running.procs[p]
  IN /\ me.op = "PUT" /\ me.pc = "begun" /\ DOMAIN PutSets(me.body) = {}
     /\ IF ~ShoeExists(Db, me.id) THEN Move(p, Ended(me, 404))
        ELSE Move(p, [me EXCEPT !.pc = "checked", !.snap = [taken |-> TRUE, shoes |-> shoes]])
     /\ UNCHANGED <<shoes, inv, nextId, cachedConn, last, cachedSecret, processEnv, lastSecret>>

\* DELETE FROM shoe_inventory WHERE shoe_id = ?
PutDeleteInventory(p) ==
  LET me == running.procs[p]
  IN /\ me.op = "PUT" /\ me.pc = "checked" /\ me.body.hasInventory
     /\ Move(p, [me EXCEPT !.touched = TRUE, !.winv = DeleteInventory(Db, me.id).w.inv,
                           !.pc = IF InventoryRows(me.id, me.body.inventory, 1) = <<>>
                                  THEN "replaced" ELSE "cleared"])
     /\ UNCHANGED <<shoes, inv, nextId, cachedConn, last, cachedSecret, processEnv, lastSecret>>

\* INSERT INTO shoe_inventory (shoe_id, size, quantity) VALUES ?
PutInsertInventory(p) ==
  LET me == running.procs[p]
      r == InsertInventory([shoes |-> shoes, inv |-> me.winv],
                           InventoryRows(me.id, me.body.inventory, 1))
  IN /\ me.op = "PUT" /\ me.pc = "cleared"
     /\ IF r.err # NoErr THEN Move(p, Ended(me, 500))
        ELSE Move(p, [me EXCEPT !.pc = "replaced", !.winv = r.w.inv])
     /\ UNCHANGED <<shoes, inv, nextId, cachedConn, last, cachedSecret, processEnv, lastSecret>>

\* a store without snapshots: a plain SELECT reads the committed rows
ReadCommitted(me) ==
  IF me.pend THEN UpdateShoe(Db, me.id, PutSets(me.body)).w.shoes ELSE shoes

\* the rows of shoes a plain SELECT of the transaction reads
ViewOfShoes(me) ==
  IF me.pend THEN UpdateShoe(Db, me.id, PutSets(me.body)).w.shoes
  ELSE IF me.snap.taken THEN me.snap.shoes
  ELSE shoes

\* SELECT * FROM shoes WHERE id = ?  and the body resp(200, rows[0] or { id })
PutReadBack(p) ==
  LET me == running.procs[p]
  IN /\ me.op = "PUT"
     /\ me.pc = "replaced" \/ (me.pc = "checked" /\ ~me.body.hasInventory)
     /\ Move(p, [me EXCEPT !.pc = "read",
                           !.answer = ShoeBody([shoes |-> ViewOfShoes(me)], me.id)])
     /\ UNCHANGED <<shoes, inv, nextId, cachedConn, last, cachedSecret, processEnv, lastSecret>>

\* await conn.commit() of the PUT: its rows become the committed ones
PutCommit(p) ==
  LET me == running.procs[p]
  IN /\ me.op = "PUT" /\ me.pc = "read"
     /\ shoes' = IF me.pend THEN UpdateShoe(Db, me.id, PutSets(me.body)).w.shoes ELSE shoes
     /\ inv' = IF me.touched
               THEN [k \in {k \in DOMAIN inv : k[1] # me.id}
                          \cup {k \in DOMAIN me.winv : k[1] = me.id} |->
                       IF k[1] = me.id THEN me.winv[k] ELSE inv[k]]
               ELSE inv
     /\ Move(p, [me EXCEPT !.pc = "done", !.status = 200, !.lock = FALSE,
                           !.gone = ~ShoeExists(Db, me.id)])
     /\ UNCHANGED <<nextId, cachedConn, last, cachedSecret, processEnv, lastSecret>>

\* DELETE FROM shoes WHERE id = ?, then the affectedRows test
DeleteRow(p) ==
  LET me == running.procs[p]
  IN /\ me.op = "DELETE" /\ me.pc = "begun"
     /\ ~LockedByOther(p, me.id)
     /\ IF ~ShoeExists(Db, me.id) THEN Move(p, Ended(me, 404))
        ELSE Move(p, [me EXCEPT !.pc = "deleted", !.lock = TRUE, !.pend = TRUE])
     /\ UNCHANGED <<shoes, inv, nextId, cachedConn, last, cachedSecret, processEnv, lastSecret>>

\* await conn.commit() of the DELETE
DeleteCommit(p) ==
  LET me == running.procs[p]
      r == DeleteShoe(Db, me.id)
  IN /\ me.op = "DELETE" /\ me.pc = "deleted"
     /\ shoes' = r.w.shoes
     /\ inv' = r.w.inv
     /\ Move(p, [me EXCEPT !.pc = "done", !.status = 200, !.lock = FALSE,
                           !.answer = MessageBody])
     /\ UNCHANGED <<nextId, cachedConn, last, cachedSecret, processEnv, lastSecret>>

\* the PUT bodies of the race: fields, inventory, both, neither, a repeated size
RacePuts ==
  {PutBody("m", FALSE, <<>>), PutBody(NullStr, FALSE, <<>>),
   PutBody(NullStr, TRUE, <<Item(9, 2)>>), PutBody("m", TRUE, <<Item(9, 2)>>),
   PutBody(NullStr, TRUE, <<>>), PutBody(NullStr, TRUE, <<Item(9, 1), Item(9, 2)>>)}

\* shoe 1 is stored with or without a row; instance 1 serves a PUT of shoe 1, every
\* other instance a DELETE of it
InitUpdateRace ==
  /\ shoes = [i \in {1} |-> TheShoe]
  /\ inv \in {EmptyInv, [k \in {<<1, 7>>} |-> <<2>>]}
  /\ nextId = 2
  /\ cachedConn = [m \in Modules |-> "connected"]
  /\ last = NoRequest
  /\ \E b \in RacePuts :
       running = [base |-> [shoes |-> shoes, inv |-> inv], overlap |-> FALSE,
                  procs |-> [p \in Instances |->
                               IF p = 1 THEN TxProc("PUT", 1, b)
                               ELSE TxProc("DELETE", 1, NoReq)]]
  /\ NoSecretUse

NextUpdateRace ==
  \E p \in Instances :
    \/ TxBegin(p)
    \/ PutFields(p)
    \/ PutExists(p)
    \/ PutDeleteInventory(p)
    \/ PutInsertInventory(p)
    \/ PutReadBack(p)
    \/ PutCommit(p)
    \/ DeleteRow(p)
    \/ DeleteCommit(p)

SpecUpdateRace == InitUpdateRace /\ [][NextUpdateRace]_vars

----------------------------------------------------------------------------
(* Properties *)

\* position of the first BEGIN in a log, 0 when there is none
FirstBegin(log) ==
  IF \E i \in 1..Len(log) : log[i] = "BEGIN"
  THEN CHOOSE i \in 1..Len(log) : log[i] = "BEGIN" /\ \A j \in 1..(i - 1) : log[j] # "BEGIN"
  ELSE 0

\* the transaction was begun and a later store call was made
BegunThenCalled(log) == FirstBegin(log) > 0 /\ FirstBegin(log) < Len(log)

\* how many times a store call appears in a log
Count(log, name) == Cardinality({i \in 1..Len(log) : log[i] = name})

\* the last request went through withDb
ThroughWithDb == last.op \in {"POST", "DELETE"} /\ last.method # "OPTIONS" /\ last.admin

\* C1: after DELETE /shoes/{id} answers 200 no inventory row of that id is
\* left, and the handler itself issued the DELETE FROM shoe_inventory.
DeleteRemovesInventory ==
  (last.op = "DELETE" /\ last.method = "DELETE" /\ last.status = 200) =>
    /\ \A k \in DOMAIN inv : k[1] # last.id
    /\ Count(last.log, "DELETE shoe_inventory") >= 1

\* C2: every inventory row's shoe_id is the id of a stored shoe.
InventoryOwned == \A k \in DOMAIN inv : k[1] \in DOMAIN shoes

\* C3: every stored inventory row has quantity >= 0.
QuantityNonNegative ==
  \A k \in DOMAIN inv : \A i \in 1..Len(inv[k]) : inv[k][i] >= 0

\* C4: at most one inventory row per (shoe_id, size).
OneRowPerSize == \A k \in DOMAIN inv : Len(inv[k]) <= 1

\* C4 witness: a payload that repeats a size reached the store and was refused
\* while rows are stored.
RepeatedSizeRefused ==
  /\ last.op \in {"POST", "PUT"}
  /\ last.raised = DupEntry
  /\ DOMAIN inv # {}

\* C5: a mutating request without the admin group is answered 403 without a
\* connection or a store call, and leaves both tables and the cached
\* connections as they were.
GuardBeforeStore ==
  [][(last'.op # "none" /\ last'.method # "OPTIONS" /\ ~last'.admin) =>
       /\ last'.status = 403
       /\ last'.log = <<>>
       /\ shoes' = shoes /\ inv' = inv /\ cachedConn' = cachedConn]_vars

\* C6: a PUT that fails after its transaction began ends on a rollback and
\* leaves the committed rows of both tables as they were.
UpdateRollsBack ==
  [][(last'.op = "PUT" /\ last'.status = 500 /\ BegunThenCalled(last'.log)) =>
       /\ last'.log[Len(last'.log)] = "ROLLBACK"
       /\ shoes' = shoes /\ inv' = inv]_vars

\* C6 witness: a PUT failed on its second inventory chunk.
UpdateFailedInChunk ==
  /\ last.op = "PUT" /\ last.status = 500
  /\ Count(last.log, "INSERT shoe_inventory") = 2
  /\ last.log[Len(last.log)] = "ROLLBACK"

\* C7: withDb invokes the operation at most twice; a second invocation happens
\* only after a transient first error, after the cached connection was
\* discarded, and on a connection created after the first invocation.
RetryOnceOnFresh ==
  ThroughWithDb =>
    /\ last.calls <= 2
    /\ last.calls = 2 =>
         /\ Transient(last.errs[1])
         /\ \E i \in 1..(Len(last.log) - 1) :
              last.log[i] = "DISCARD" /\ last.log[i + 1] = "CONNECT"
         /\ last.conns[2] > last.conns[1]
         /\ last.conns[2] = last.made

\* C7 witness: a request whose operation was invoked twice and then succeeded.
RetriedAndSucceeded ==
  ThroughWithDb /\ last.calls = 2 /\ last.status \in {200, 201}

\* C8 as stated: whenever withDb fails, the error raised is the one the last
\* invocation of the operation threw.
RaisedIsLastInvocationError ==
  (ThroughWithDb /\ last.raised # NoErr) =>
    /\ last.calls >= 1
    /\ last.raised = last.errs[last.calls]

\* C8 amended: when withDb fails, either obtaining a connection failed (before
\* the first invocation, or for the retry after a transient error) and that
\* error is raised, or the error raised is the one the last invocation threw:
\* a non-transient first error without a retry, a second error without a third
\* invocation.
RaisedIsLastError ==
  (ThroughWithDb /\ last.raised # NoErr) =>
    IF last.connErr # NoErr
    THEN /\ last.raised = last.connErr
         /\ last.calls <= 1
         /\ last.calls = 1 => Transient(last.errs[1])
    ELSE /\ last.calls \in {1, 2}
         /\ last.raised = last.errs[last.calls]
         /\ last.calls = 1 <=> ~Transient(last.errs[1])

\* C8 witness: the reconnect for the retry failed and its error was raised.
ReconnectFailed ==
  /\ ThroughWithDb
  /\ last.calls = 1 /\ Transient(last.errs[1])
  /\ last.raised = ConnectTimeout /\ last.raised # last.errs[1]

\* C9: a request is answered 500 on a transient store error only after the
\* operation was invoked a second time.
TransientRetriedBefore500 ==
  (last.status = 500 /\ last.calls >= 1 /\ Transient(last.errs[1])) => last.calls = 2

\* the quantities the items of a payload submit for a size
SubmittedFor(items, size) ==
  {items[i].quantity : i \in {i \in 1..Len(items) : items[i].size = size}}

\* C10: after a PUT with an inventory list answers 200, the rows of the shoe
\* are the items of the list with a size, each with the quantity submitted,
\* and the rows of the other shoes are as they were.
ReplaceInventoryExactly ==
  [][(last'.op = "PUT" /\ last'.method = "PUT" /\ last'.status = 200 /\ last'.sent.has) =>
       /\ \A k \in DOMAIN inv' \cup DOMAIN inv :
            IF k[1] = last'.id
            THEN k \in DOMAIN inv' => SubmittedFor(last'.sent.items, k[2]) = {inv'[k][1]}
            ELSE k \in DOMAIN inv' /\ k \in DOMAIN inv /\ inv'[k] = inv[k]
       /\ \A i \in 1..Len(last'.sent.items) :
            last'.sent.items[i].size # Null =>
              <<last'.id, last'.sent.items[i].size>> \in DOMAIN inv']_vars

\* what GET /shoes/{id} answers on warm connections in the state a step leads to
GetAfter(id) ==
  LET after == [shoes |-> shoes', inv |-> inv']
  IN GetBody(GetHandler(after, nextId', "connected", NoGroups, id, NoFault, NoErr), id)

\* the items of a submitted shoe that carry a size
SizedItems(shoe) ==
  IF shoe.hasInventory
  THEN {shoe.inventory[i] : i \in {i \in 1..Len(shoe.inventory) : shoe.inventory[i].size # Null}}
  ELSE {}

\* C11: after a successful POST, GET on each generated id answers the submitted
\* name, brand, price and image, and an inventory holding each submitted
\* (size, quantity) pair exactly once and nothing else.
CreatedThenRead ==
  [][(last'.op = "POST" /\ last'.status \in {200, 201}) =>
       \A j \in 1..Len(PayloadShoes(last'.req)) :
         LET sub == PayloadShoes(last'.req)[j]
             got == GetAfter(nextId + j - 1)
         IN /\ got.kind = "shoe"
            /\ \A c \in Columns : got.fields[c] = sub[c]
            /\ \A it \in SizedItems(sub) :
                 Cardinality({i \in 1..Len(got.inventory) : got.inventory[i] = it}) = 1
            /\ \A i \in 1..Len(got.inventory) : got.inventory[i] \in SizedItems(sub)]_vars

\* the inventory stored for a shoe, as the nested {size, quantity} list
StoredInventory(id) == JoinedInventory(Db, id)

\* C12: a 201 carries the created shoe with its nested inventory as stored; a
\* POST of more than one shoe answers 200 with the number of shoes inserted.
CreateAnswersProduct ==
  (last.op = "POST" /\ last.status \in {200, 201}) =>
    IF Len(PayloadShoes(last.req)) = 1
    THEN /\ last.status = 201
         /\ last.body.kind = "shoe"
         /\ last.body.fields = shoes[last.body.id]
         /\ last.body.nested
         /\ last.body.inventory = StoredInventory(last.body.id)
    ELSE /\ last.status = 200
         /\ last.body.kind = "message"
         /\ last.body.count = Len(PayloadShoes(last.req))

\* an item without a name or a brand, or without a price
InvalidItem(x) ==
  x.name \in {NullStr, ""} \/ x.brand \in {NullStr, ""} \/ x.price = Null

\* the batch a POST body submits is empty, not a list, or holds an invalid item
InvalidBatch(req) ==
  \/ req.kind = "invalid"
  \/ req.kind = "single" /\ InvalidItem(req)
  \/ req.kind = "list" /\ Len(req.shoes) = 0
  \/ req.kind = "list" /\ \E i \in 1..Len(req.shoes) : InvalidItem(req.shoes[i])

\* C13: a POST whose batch is empty, not a list or holds an invalid item is
\* answered 400 and inserts nothing.
InvalidBatchRefused ==
  [][(last'.op = "POST" /\ last'.req.kind # "none" /\ InvalidBatch(last'.req)) =>
       (last'.status = 400 /\ shoes' = shoes /\ inv' = inv)]_vars

\* C14: when an insert of chunk N of a batch longer than one chunk is refused
\* with a non-transient error, the answer is 500 after one invocation and
\* exactly the shoes of chunks 1..N-1, with their inventory, were added.
ChunksBeforeFailureRemain ==
  [][(/\ last'.op = "POST" /\ last'.req.kind = "list"
      /\ Len(last'.req.shoes) > batchSize
      /\ last'.calls = 1 /\ last'.errs[1] # NoErr /\ ~Transient(last'.errs[1])) =>
       LET list == last'.req.shoes
           N == Count(last'.log, "INSERT shoes")
           added == nextId..(nextId + batchSize * (N - 1) - 1)
       IN /\ last'.status = 500
          /\ DOMAIN shoes' = DOMAIN shoes \cup added
          /\ \A i \in DOMAIN shoes : shoes'[i] = shoes[i]
          /\ \A k \in DOMAIN inv : k \in DOMAIN inv' /\ inv'[k] = inv[k]
          /\ \A k \in DOMAIN inv' \ DOMAIN inv : k[1] \in added
          /\ \A i \in added :
               {<<p.size, p.quantity>> : p \in SizedItems(list[i - nextId + 1])} =
               {<<k[2], inv'[k][1]>> : k \in {k \in DOMAIN inv' : k[1] = i}}]_vars

\* C15: a PUT answered 200 carries the updated shoe and its nested inventory,
\* equal to the inventory rows stored for it.
UpdateAnswersProduct ==
  (last.op = "PUT" /\ last.status = 200) =>
    /\ last.body.kind = "shoe"
    /\ last.body.fields = shoes[last.id]
    /\ last.body.nested
    /\ last.body.inventory = StoredInventory(last.id)

\* C16: a valid PUT, PATCH or DELETE of an admin on an id that is not stored is
\* answered 404 and leaves both tables as they were.
NotFoundChangesNothing ==
  [][(/\ last'.op \in {"PUT", "PATCH", "DELETE"} /\ last'.admin
      /\ last'.id \notin DOMAIN shoes /\ last'.status # 400) =>
       (last'.status = 404 /\ shoes' = shoes /\ inv' = inv)]_vars

\* C16 witness: a PATCH on a missing id was answered 404 while rows are stored.
PatchOnMissingShoe ==
  /\ last.op = "PATCH" /\ last.status = 404
  /\ last.id \notin DOMAIN shoes /\ DOMAIN inv # {}

\* the columns of shoe id after a PUT of req: the submitted value where the
\* body carries one, the prior value elsewhere
Submitted(req, prior) ==
  [c \in Columns |-> IF Present(req, c) THEN req[c] ELSE prior[c]]

\* C17: a PUT of an admin on a stored shoe sets each of name, brand, price and
\* image that the body carries to the submitted value and keeps the others; a
\* body without an inventory list leaves the inventory rows alone; a body with
\* an inventory list and no field issues no UPDATE of shoes, only the
\* existence SELECT.
UpdateSetsPresentFields ==
  [][(/\ last'.op = "PUT" /\ last'.admin /\ last'.req.valid
      /\ last'.id \in DOMAIN shoes) =>
       LET req == last'.req
           id == last'.id
       IN /\ DOMAIN shoes' = DOMAIN shoes
          /\ shoes'[id] = Submitted(req, shoes[id])
          /\ \A j \in DOMAIN shoes \ {id} : shoes'[j] = shoes[j]
          /\ ~req.hasInventory => inv' = inv
          /\ (req.hasInventory /\ \A c \in Columns : ~Present(req, c)) =>
               /\ Count(last'.log, "UPDATE shoes") = 0
               /\ Count(last'.log, "SELECT shoes") >= 1]_vars

\* the body of a PATCH carries both quantity and delta, or neither
BothOrNeither(req) == (req.quantity # Null) <=> (req.delta # Null)

AbsolutePatch(l) ==
  /\ l.op = "PATCH" /\ l.admin /\ l.req.valid /\ l.req.size # Null
  /\ l.req.quantity # Null /\ l.req.quantity >= 0 /\ l.req.delta = Null

\* C19: an absolute PATCH on a stored shoe is answered 200 and leaves exactly
\* one row for (id, size), holding the submitted quantity, whether or not a row
\* was stored before, and no other row changes; the same PATCH repeated
\* straight after changes nothing.
AbsoluteIdempotent ==
  [][(AbsolutePatch(last') /\ last'.id \in DOMAIN shoes) =>
       LET key == <<last'.id, last'.req.size>>
       IN /\ last'.status = 200
          /\ shoes' = shoes
          /\ DOMAIN inv' = DOMAIN inv \cup {key}
          /\ inv'[key] = <<last'.req.quantity>>
          /\ \A k \in DOMAIN inv \ {key} : inv'[k] = inv[k]
          /\ (/\ last.op = "PATCH" /\ last.status = 200 /\ last.id = last'.id
              /\ last.req = last'.req) => inv' = inv]_vars

\* C19 witness: an absolute PATCH of quantity 0 was answered 200 and the row of
\* size 7, stored with a positive quantity at first, holds 0.
AbsoluteStored ==
  /\ AbsolutePatch(last) /\ last.status = 200
  /\ last.req.size = 7 /\ last.req.quantity = 0
  /\ inv[<<last.id, 7>>] = <<0>>

\* a PATCH of an admin in delta mode: size and a delta, no quantity
DeltaPatch(l) ==
  /\ l.op = "PATCH" /\ l.admin /\ l.req.valid /\ l.req.size # Null
  /\ l.req.quantity = Null /\ l.req.delta # Null

\* the quantity stored for key, 0 when no row is stored
StoredQuantity(key) == IF key \in DOMAIN inv THEN inv[key][1] ELSE 0

\* C20: a delta PATCH on a stored shoe with d > 0 leaves q + d in the row of
\* (id, size), q being the stored quantity or 0 without a row; with d < 0 on a
\* stored row it leaves max(0, q + d); no other row changes. As this holds of
\* every step, a sequence of deltas leaves the left fold of these steps.
DeltaStep ==
  [][(DeltaPatch(last') /\ last'.id \in DOMAIN shoes) =>
       LET key == <<last'.id, last'.req.size>>
           d == last'.req.delta
           q == StoredQuantity(key)
       IN /\ shoes' = shoes
          /\ \A k \in DOMAIN inv \ {key} : k \in DOMAIN inv' /\ inv'[k] = inv[k]
          /\ d > 0 =>
               /\ last'.status = 200
               /\ DOMAIN inv' = DOMAIN inv \cup {key}
               /\ inv'[key] = <<q + d>>
          /\ (d < 0 /\ key \in DOMAIN inv) =>
               /\ last'.status = 200
               /\ DOMAIN inv' = DOMAIN inv
               /\ inv'[key] = <<Max(0, q + d)>>]_vars

\* C20 witness: a delta of -3 on a stored row was answered 200 and the row
\* holds 0.
DeltaClamped ==
  /\ DeltaPatch(last) /\ last.status = 200
  /\ last.req.delta = -3
  /\ inv[<<last.id, last.req.size>>] = <<0>>

\* C21: a delta PATCH with d < 0 on a stored shoe that has no row for the size
\* is answered 400 and leaves both tables as they were: no row is created.
DecrementOfMissingRowRefused ==
  [][(/\ DeltaPatch(last') /\ last'.id \in DOMAIN shoes /\ last'.req.delta < 0
      /\ <<last'.id, last'.req.size>> \notin DOMAIN inv) =>
       (last'.status = 400 /\ shoes' = shoes /\ inv' = inv)]_vars

\* C21 witness: a delta of -3 on a stored shoe without a row for the size was
\* answered 400.
DecrementRefused ==
  /\ DeltaPatch(last) /\ last.status = 400 /\ last.req.delta = -3
  /\ last.id \in DOMAIN shoes
  /\ <<last.id, last.req.size>> \notin DOMAIN inv

\* the request of an admin fails input validation: an unparseable body, a
\* PATCH without a size, with both or neither of quantity and delta or with a
\* negative quantity, a POST with an empty or invalid batch
ValidationFailure(l) ==
  /\ l.admin /\ l.method # "OPTIONS"
  /\ \/ l.op \in {"PUT", "PATCH"} /\ ~l.req.valid
     \/ /\ l.op = "PATCH" /\ l.req.valid
        /\ \/ l.req.size = Null
           \/ BothOrNeither(l.req)
           \/ l.req.quantity # Null /\ l.req.quantity < 0
     \/ l.op = "POST" /\ InvalidBatch(l.req)

\* C22: a request that fails input validation is answered 400 with no
\* connection obtained and no statement sent.
ValidationBeforeStore ==
  ValidationFailure(last) =>
    (last.status = 400 /\ last.conns = <<>> /\ last.log = <<>>)

\* C23: an OPTIONS request to a guarded handler is answered 200 with an empty
\* body whatever its claims, with no connection obtained or created and no
\* statement sent, and leaves the tables and the cached connections alone.
PreflightShortCircuits ==
  [][(last'.op # "none" /\ last'.method = "OPTIONS") =>
       /\ last'.status = 200 /\ last'.body = EmptyBody
       /\ last'.conns = <<>> /\ last'.made = 0 /\ last'.log = <<>>
       /\ shoes' = shoes /\ inv' = inv /\ cachedConn' = cachedConn]_vars

\* C23 witness: an OPTIONS request without the admin group was answered 200
\* while the handler's module held no connection.
PreflightWithoutAdmin ==
  /\ last.method = "OPTIONS" /\ last.op = "DELETE" /\ ~last.admin
  /\ last.status = 200 /\ cachedConn["delete"] = "null"

\* the body a GET of shoe id answers from the stored tables: the shoe with its
\* nested inventory, or the not-found message
ReadOf(id) ==
  IF id \in DOMAIN shoes
  THEN [ShoeBody(Db, id) EXCEPT !.nested = TRUE, !.inventory = StoredInventory(id)]
  ELSE MessageBody

\* the body a list request with this brand filter answers from the stored tables
ListOf(brand) ==
  [NoBody EXCEPT !.kind = "list",
                 !.list = GroupRows(<<>>, JoinRows(Db, Matching(Db, brand)), Db)]

\* C24: a GET of one shoe or of the list is never answered 403; its status and
\* body are those the stored tables determine, the same for every claims.
ReadsIgnoreClaims ==
  /\ last.op = "GET" =>
       /\ last.status = (IF last.id \in DOMAIN shoes THEN 200 ELSE 404)
       /\ last.body = ReadOf(last.id)
  /\ last.op = "LIST" =>
       /\ last.status = 200
       /\ last.body = ListOf(last.req.brand)

\* C24 witness: a GET without the admin group was answered 200 with a shoe
\* that has inventory.
ReadWithoutAdmin ==
  /\ last.op = "GET" /\ ~last.admin /\ last.status = 200
  /\ last.body.inventory # <<>>

\* the keys of the inventory rows stored for shoe id
KeysOf(id) == {k \in DOMAIN inv : k[1] = id}

\* the {size, quantity} entries of the inventory rows stored for shoe id
EntriesOf(id) ==
  UNION {{[size |-> k[2], quantity |-> inv[k][i]] : i \in 1..Len(inv[k])} : k \in KeysOf(id)}

\* the number of inventory rows stored for shoe id
RowCount(id) ==
  Cardinality(UNION {{<<k, i>> : i \in 1..Len(inv[k])} : k \in KeysOf(id)})

\* a nested inventory in ascending size order, one entry per stored row of id
NestedAsStored(inventory, id) ==
  /\ Len(inventory) = RowCount(id)
  /\ {inventory[i] : i \in 1..Len(inventory)} = EntriesOf(id)
  /\ \A i \in 1..(Len(inventory) - 1) : inventory[i].size < inventory[i + 1].size

\* C27: the list answers 200 with each matching shoe exactly once in ascending
\* id order, each with its columns and its inventory rows nested in ascending
\* size order, a shoe without rows with an empty inventory, and the empty
\* sequence when nothing matches; a GET of one shoe answers the record the
\* list holds for that id.
ListIsCompleteAndOrdered ==
  /\ last.op = "LIST" =>
       LET l == last.body.list
           wanted == {id \in DOMAIN shoes :
                        last.req.brand = NullStr \/ shoes[id].brand = last.req.brand}
       IN /\ last.status = 200 /\ last.body.kind = "list"
          /\ Len(l) = Cardinality(wanted)
          /\ {l[i].id : i \in 1..Len(l)} = wanted
          /\ \A i \in 1..(Len(l) - 1) : l[i].id < l[i + 1].id
          /\ \A i \in 1..Len(l) :
               /\ l[i].fields = shoes[l[i].id]
               /\ NestedAsStored(l[i].inventory, l[i].id)
  /\ (last.op = "GET" /\ last.id \in DOMAIN shoes) =>
       /\ last.status = 200 /\ last.body.kind = "shoe" /\ last.body.nested
       /\ \E i \in 1..Len(ListOf(NullStr).list) :
            LET x == ListOf(NullStr).list[i]
            IN /\ x.id = last.body.id /\ x.id = last.id
               /\ x.fields = last.body.fields
               /\ x.inventory = last.body.inventory

\* C27 witness: a list of two shoes was answered, one without inventory and
\* one with two sizes.
ListOfTwo ==
  /\ last.op = "LIST" /\ last.status = 200 /\ Len(last.body.list) = 2
  /\ \E i \in 1..2 : last.body.list[i].inventory = <<>>
  /\ \E i \in 1..2 : Len(last.body.list[i].inventory) = 2

\* every instance has answered
AllDone == \A p \in Instances : running.procs[p].pc = "done"

\* the tables after PATCH b alone, served from start to end
SerialPatch(db, b) == handlePatchInventoryFn(Session(db, nextId), NoFault, 1, b).s.c

\* the tables after the calls of the instances ps, one at a time, in every order
RECURSIVE SerialPatches(_, _)
SerialPatches(db, ps) ==
  IF ps = {} THEN {db}
  ELSE UNION {SerialPatches(SerialPatch(db, running.procs[p].body), ps \ {p}) : p \in ps}

\* C25: when PATCH calls for one (shoe, size) have been served by separate
\* instances, their statements interleaved in any way, the stored rows are
\* those of serving the same calls one at a time in some order.
NoLostUpdate ==
  AllDone => inv \in {d.inv : d \in SerialPatches(running.base, Instances)}

\* C25 witness: a decrement and an increment of the same row were both
\* answered 200 after their statements interleaved.
PatchesInterleaved ==
  /\ AllDone /\ running.overlap
  /\ \A p \in Instances : running.procs[p].status = 200
  /\ \E p \in Instances : running.procs[p].body.delta = -1
  /\ \E p \in Instances : running.procs[p].body.delta = 1

\* the tables and the answer after the request of me alone, served from start
\* to end on the tables db
SerialServe(db, me) ==
  IF me.op = "PUT"
  THEN LET r == UpdateHandler(db, nextId, "connected", "PUT", AdminArr, me.id, me.body,
                              NoFault, NoErr)
       IN [db |-> r.db, status |-> r.status, answer |-> UpdateBody(r, me.id)]
  ELSE LET r == DeleteHandler(db, nextId, "connected", "DELETE", AdminArr, me.id,
                              NoFault, NoFault, NoErr, NoErr)
       IN [db |-> r.db, status |-> r.status, answer |-> DeleteBody(r)]

\* the tables and the answers after the requests of the instances ps, one at a
\* time, in every order
RECURSIVE SerialRuns(_, _, _)
SerialRuns(db, ps, got) ==
  IF ps = {} THEN {[db |-> db, got |-> got]}
  ELSE UNION {LET r == SerialServe(db, running.procs[p])
              IN SerialRuns(r.db, ps \ {p},
                            got @@ (p :> [status |-> r.status, answer |-> r.answer]))
              : p \in ps}

\* C26: when a PUT and a DELETE of one shoe have been served by separate
\* instances, their statements interleaved in any way, the answers and the
\* stored tables are those of serving the requests one at a time in some
\* order, also for a PUT with an inventory list and no field.
UpdateDeleteSerializable ==
  AllDone =>
    [db |-> Db,
     got |-> [p \in Instances |-> [status |-> running.procs[p].status,
                                   answer |-> running.procs[p].answer]]]
      \in SerialRuns(running.base, Instances, <<>>)

\* C26 witness: a PUT with an inventory list and no field was answered 200
\* although the DELETE of its shoe committed before it did.
UpdateOvertakenByDelete ==
  /\ AllDone /\ running.overlap
  /\ running.procs[1].status = 200 /\ running.procs[1].gone
  /\ running.procs[1].body.name = NullStr /\ running.procs[1].body.inventory # <<>>
  /\ \E p \in Instances : running.procs[p].op = "DELETE" /\ running.procs[p].status = 200

\* C28: every response of every handler carries the headers with the JSON
\* content type and the cross-origin permissions.
EveryResponseHasHeaders == last.op # "none" => last.headers

\* the BEGIN at position i of a log took effect, a store call follows it, and
\* no COMMIT or ROLLBACK is issued before the next BEGIN or the end of the log
LeftOpenAt(log, i) ==
  /\ log[i] = "BEGIN" /\ i < Len(log)
  /\ log[i + 1] \notin {"BEGIN", "DISCARD", "CONNECT"}
  /\ ~\E j \in (i + 1)..Len(log) :
        /\ log[j] \in {"COMMIT", "ROLLBACK"}
        /\ \A m \in (i + 1)..(j - 1) : log[m] # "BEGIN"

\* C29: a PUT or DELETE issues a COMMIT or a ROLLBACK after every transaction
\* it began, and leaves no transaction open on a cached connection that is
\* still alive.
TransactionsEnd ==
  last.op \in {"PUT", "DELETE"} =>
    /\ \A i \in 1..Len(last.log) : ~LeftOpenAt(last.log, i)
    /\ ~last.txOpen

\* C29 witness: the COMMIT of a PUT was refused on a connection that stayed
\* alive, and the handler rolled back.
CommitRefusedThenRolledBack ==
  /\ last.op = "PUT" /\ last.status = 500 /\ Len(last.log) >= 2
  /\ last.log[Len(last.log) - 1] = "COMMIT" /\ last.log[Len(last.log)] = "ROLLBACK"
  /\ cachedConn["update"] = "connected"

\* the module whose cached connection a PUT or a DELETE uses
CacheOf(op) == IF op = "PUT" THEN "update" ELSE "delete"

\* no invocation of the operation ended on a transient error
NoTransient(errs) == \A i \in 1..Len(errs) : ~Transient(errs[i])

SecretFetchedOnce ==
  [][(lastSecret'.called /\ processEnv.CONFIG_SOURCE = "SecretsManager") =>
       LET l == lastSecret'
           m == l.m
       IN /\ l.was.kind # "null" =>
               l.contacts = 0 /\ l.value = l.was /\ cachedSecret'[m] = l.was
          /\ (l.contacts = 1 /\ l.err = NoErr) =>
               cachedSecret'[m] = l.value /\ l.value.kind = "secret"
          /\ l.err # NoErr => cachedSecret'[m] = l.was]_vars

\* C32: in SecretsManager mode without SECRET_NAME a resolution throws the
\* configuration error without contacting the secret store and caches
\* nothing, the request that needed it creates no connection and is answered
\* 500; in Env mode no resolution contacts the secret store.
MissingNameIsConfigError ==
  [][lastSecret'.called =>
       LET l == lastSecret'
       IN /\ (processEnv.CONFIG_SOURCE = "SecretsManager"
               /\ processEnv.SECRET_NAME = NullStr /\ l.was.kind = "null") =>
               /\ l.err = ConfigErr /\ l.contacts = 0
               /\ cachedSecret'[l.m].kind = "null"
               /\ last' # last => (last'.made = 0 /\ last'.status = 500)
          /\ processEnv.CONFIG_SOURCE # "SecretsManager" => l.contacts = 0]_vars

\* C33: every invocation of a handler ends with a response, never with an
\* exception that leaves the handler, and every failure response carries a
\* message body, also when a store statement failed and the rollback in the
\* error path failed too.
EveryInvocationAnswers ==
  last.op # "none" =>
    /\ last.out # "uncaught"
    /\ last.status \in {200, 201, 400, 403, 404, 500}
    /\ last.status >= 400 => last.body.kind = "message"

\* the shoes rows a step added
AddedShoes == DOMAIN shoes' \ DOMAIN shoes

\* C34: when a POST /shoes that withDb retried answers 200 or 201, each shoe
\* of the payload is exactly one of the rows the request added, and a count
\* reported is the number of rows added.
RetriedCreateAddsEachOnce ==
  [][(last'.op = "POST" /\ last'.status \in {200, 201} /\ last'.calls = 2) =>
       LET list == PayloadShoes(last'.req)
       IN /\ \A i \in 1..Len(list) :
               Cardinality({id \in AddedShoes : shoes'[id].name = list[i].name}) = 1
          /\ Cardinality(AddedShoes) = Len(list)
          /\ last'.status = 200 => last'.body.count = Cardinality(AddedShoes)]_vars

\* C35: when the DELETE statement of DELETE /shoes/{id} fails with a transient
\* error (every fault of this specification), withDb sees that error and
\* runs the operation a second time on a connection created after the first,
\* whatever the rollback in the catch block does.
TransientDeleteRetried ==
  (last.op = "DELETE" /\ last.calls >= 1 /\ last.errs[1] # NoErr) =>
    /\ Transient(last.errs[1])
    /\ last.calls = 2
    /\ last.conns[2] > last.conns[1]

\* C36: once the deletion of a shoe has committed (its inventory rows removed
\* with it), no PATCH of that shoe has answered 200 while an inventory row of
\* the shoe is stored.
PatchAtomicWithDelete ==
  \A p \in Instances :
    LET me == running.procs[p]
    IN (me.op = "PATCH" /\ me.pc = "done" /\ me.status = 200
          /\ ~ShoeExists(Db, me.id)) =>
         ~\E k \in DOMAIN inv : k[1] = me.id

\* C37: a PATCH with a negative delta answers 200 only if its UPDATE matched a
\* row, and the quantity it answers is the quantity its UPDATE stored.
DecrementAnswersWhatItStored ==
  \A p \in Instances :
    LET me == running.procs[p]
    IN (me.op = "PATCH" /\ me.pc = "done" /\ me.status = 200
          /\ me.body.quantity = Null /\ me.body.delta < 0) =>
         me.applied /\ me.seen = me.stored

\* C38: every inventory row stored by concurrent POST /shoes requests is stored
\* under the id of the shoe it was nested under in its payload (size j and
\* quantity p under the shoe tagged (p, j)), and no insert of rows is refused.
InventoryUnderOwnShoe ==
  /\ \A k \in DOMAIN inv :
       /\ k[1] \in DOMAIN shoes
       /\ \A i \in 1..Len(inv[k]) : shoes[k[1]].price = PriceTag(inv[k][i], k[2])
  /\ \A p \in Instances : running.procs[p].status # 500

\* C38 witness: two requests have finished after running at the same time, one
\* of them with a second chunk whose row is stored.
CreatesInterleaved ==
  /\ AllDone /\ running.overlap
  /\ \E k \in DOMAIN inv : k[2] = batchSize + 1
  /\ \E p \in Instances :
       running.procs[p].op = "POST" /\ running.procs[p].seen > batchSize + 1

\* admin is one of the groups a string lists: it stands between the start or a
\* comma and a comma or the end
ListedIn(str) ==
  \E a \in 1..Len(str) :
    /\ a + Len(AdminChars) - 1 <= Len(str)
    /\ SubSeq(str, a, a + Len(AdminChars) - 1) = AdminChars
    /\ a = 1 \/ str[a - 1] = ","
    /\ a + Len(AdminChars) - 1 = Len(str) \/ str[a + Len(AdminChars)] = ","

\* admin is one of the memberships of the claims
AdminMember(claims) ==
  IF claims.kind = "string" THEN ListedIn(claims.items)
  ELSE IF claims.kind = "array" THEN \E i \in 1..Len(claims.items) : claims.items[i] = "admin"
  ELSE FALSE

\* C39: a POST, PUT, PATCH or DELETE passes the guard (is not answered 403)
\* exactly when admin is one of the memberships of its claims, given as an
\* array or as a comma-separated string, at any position; absent or empty
\* memberships never pass.
GuardAdmitsExactlyAdmins ==
  last.op # "none" =>
    /\ last.status # 403 <=> AdminMember(last.req.claims)
    /\ last.admin <=> AdminMember(last.req.claims)
    /\ last.req.claims.items = <<>> => last.status = 403

\* C39 witness: a request passed the guard on a string that lists admin after
\* another group.
AdminListedSecond ==
  /\ last.op # "none" /\ last.status # 403
  /\ last.req.claims.kind = "string"
  /\ Len(last.req.claims.items) > Len(AdminChars)
  /\ SubSeq(last.req.claims.items, 1, Len(AdminChars)) # AdminChars
====
